---- MODULE Spec2Model ----
(***************************************************************************)
(* Model of pgBackRest's command and option parser, src/config/parse.c:    *)
(* configParse() with its phases P1 (argument scan), P2 (environment       *)
(* scan), P3 (configuration files), P4 (option groups) and P5 (resolve     *)
(* and validate), and the helpers parseOptionIdxValue() and cfgFileLoad(). *)
(*                                                                         *)
(* Strings are sequences of atoms: <<"/", "a">> is the path "/a".          *)
(***************************************************************************)
EXTENDS Integers, Sequences, FiniteSets, TLC

\* ------------------------------------------------------------------------
\* Bounds of the model
\* ------------------------------------------------------------------------
\* argv tokens after argv[0] that getopt_long() returns
MaxArgs == 3
\* PGBACKREST_* variables in environ
MaxEnv == 1
\* keys of the configuration text
MaxKeys == 2
\* argv tokens, variables and keys read in one call of configParse()
MaxInput == 3

\* ------------------------------------------------------------------------
\* Strings used as inputs
\* ------------------------------------------------------------------------
StrA == <<"a">>
StrB == <<"b">>
StrS == <<"s">>
StrY == <<"y">>
StrN == <<"n">>
PathA == <<"/", "a">>
PathConf == <<"/", "c">>
EMPTY_STR == <<>>

\* ------------------------------------------------------------------------
\* Generated tables (config/parse.auto.c, config/define.auto.c and
\* config/config.auto.c): a small option table with the shape the
\* specification gives OptionMeta.
\* ------------------------------------------------------------------------
cfgCmdNone == "none"
cfgCmdHelp == "help"
cfgCmdVersion == "version"
cfgCmdBackup == "backup"
cfgCmdArchivePush == "archive-push"
cfgCmdRestore == "restore"
cfgCmdStanzaCreate == "stanza-create"

CommandIds ==
    {cfgCmdBackup, cfgCmdArchivePush, cfgCmdRestore, cfgCmdStanzaCreate, cfgCmdHelp, cfgCmdVersion}

cfgCmdRoleDefault == "default"
cfgCmdRoleLocal == "local"

cfgSourceDefault == "Default"
cfgSourceParam == "Param"
cfgSourceConfig == "Config"

cfgOptConfig == "config"
cfgOptStanza == "stanza"
cfgOptConfigPath == "config-path"
cfgOptConfigIncludePath == "config-include-path"

\* OPTION_VALUE_0 and OPTION_VALUE_1
OPTION_VALUE_0 == <<"0">>
OPTION_VALUE_1 == <<"1">>

NoDefault == [has |-> FALSE, s |-> EMPTY_STR]

NoDepend == [has |-> FALSE, opt |-> "", values |-> <<>>]

Depend(optionId, values) == [has |-> TRUE, opt |-> optionId, values |-> values]

DefaultOf(s) == [has |-> TRUE, s |-> s]

OptionBase ==
    ("config" :> [type |-> "String", section |-> "CommandLine", secure |-> FALSE, multi |-> FALSE,
                  group |-> FALSE, required |-> TRUE,
                  default |-> DefaultOf(<<"/", "etc", "/", "pgbackrest", "/", "pgbackrest.conf">>),
                  valid |-> {cfgCmdBackup, cfgCmdArchivePush}])
    @@ ("config-include-path" :> [type |-> "Path", section |-> "CommandLine", secure |-> FALSE,
                                  multi |-> FALSE, group |-> FALSE, required |-> TRUE,
                                  default |-> DefaultOf(<<"/", "etc", "/", "pgbackrest", "/", "conf.d">>),
                                  valid |-> {cfgCmdBackup, cfgCmdArchivePush}])
    @@ ("config-path" :> [type |-> "Path", section |-> "CommandLine", secure |-> FALSE,
                          multi |-> FALSE, group |-> FALSE, required |-> TRUE,
                          default |-> DefaultOf(<<"/", "etc", "/", "pgbackrest">>),
                          valid |-> {cfgCmdBackup, cfgCmdArchivePush}])
    @@ ("stanza" :> [type |-> "String", section |-> "CommandLine", secure |-> FALSE, multi |-> FALSE,
                     group |-> FALSE, required |-> TRUE, default |-> NoDefault,
                     valid |-> {cfgCmdBackup, cfgCmdArchivePush}])
    @@ ("compress" :> [type |-> "Boolean", section |-> "Global", secure |-> FALSE, multi |-> FALSE,
                       group |-> FALSE, required |-> TRUE, default |-> DefaultOf(<<"1">>),
                       valid |-> {cfgCmdBackup, cfgCmdArchivePush}])
    @@ ("repo-cipher-pass" :> [type |-> "String", section |-> "Global", secure |-> TRUE, multi |-> FALSE,
                               group |-> FALSE, required |-> FALSE, default |-> NoDefault,
                               valid |-> {cfgCmdBackup, cfgCmdArchivePush}])
    @@ ("exclude" :> [type |-> "List", section |-> "Global", secure |-> FALSE, multi |-> TRUE,
                      group |-> FALSE, required |-> FALSE, default |-> NoDefault,
                      valid |-> {cfgCmdBackup}])
    @@ ("pg-path" :> [type |-> "Path", section |-> "Stanza", secure |-> FALSE, multi |-> FALSE,
                      group |-> TRUE, required |-> TRUE, default |-> NoDefault,
                      valid |-> {cfgCmdBackup, cfgCmdArchivePush}])
    @@ ("pg-port" :> [type |-> "String", section |-> "Stanza", secure |-> FALSE, multi |-> FALSE,
                      group |-> TRUE, required |-> FALSE, default |-> DefaultOf(<<"5432">>),
                      valid |-> {cfgCmdBackup, cfgCmdArchivePush}])

\* The options of restore and stanza-create that depend on another one: on a
\* Boolean being false (force), on a String having one value (repo-s3-bucket),
\* one of several (target), or any value (repo-host-user)
OptionDepend ==
    ("online" :> [type |-> "Boolean", section |-> "CommandLine", secure |-> FALSE, multi |-> FALSE,
                  group |-> FALSE, required |-> TRUE, default |-> DefaultOf(<<"1">>),
                  valid |-> {cfgCmdStanzaCreate}, depend |-> NoDepend])
    @@ ("force" :> [type |-> "Boolean", section |-> "CommandLine", secure |-> FALSE, multi |-> FALSE,
                    group |-> FALSE, required |-> TRUE, default |-> DefaultOf(<<"0">>),
                    valid |-> {cfgCmdStanzaCreate}, depend |-> Depend("online", <<OPTION_VALUE_0>>)])
    @@ ("repo-type" :> [type |-> "String", section |-> "Global", secure |-> FALSE, multi |-> FALSE,
                        group |-> FALSE, required |-> TRUE, default |-> DefaultOf(<<"posix">>),
                        valid |-> {cfgCmdRestore}, depend |-> NoDepend])
    @@ ("repo-s3-bucket" :> [type |-> "String", section |-> "Global", secure |-> FALSE,
                             multi |-> FALSE, group |-> FALSE, required |-> TRUE, default |-> NoDefault,
                             valid |-> {cfgCmdRestore}, depend |-> Depend("repo-type", <<<<"s3">>>>)])
    @@ ("type" :> [type |-> "String", section |-> "CommandLine", secure |-> FALSE, multi |-> FALSE,
                   group |-> FALSE, required |-> TRUE, default |-> DefaultOf(<<"default">>),
                   valid |-> {cfgCmdRestore}, depend |-> NoDepend])
    @@ ("target" :> [type |-> "String", section |-> "CommandLine", secure |-> FALSE, multi |-> FALSE,
                     group |-> FALSE, required |-> TRUE, default |-> NoDefault,
                     valid |-> {cfgCmdRestore},
                     depend |-> Depend("type", <<<<"name">>, <<"time">>, <<"xid">>>>)])
    @@ ("repo-host" :> [type |-> "String", section |-> "Global", secure |-> FALSE, multi |-> FALSE,
                        group |-> FALSE, required |-> FALSE, default |-> NoDefault,
                        valid |-> {cfgCmdRestore}, depend |-> NoDepend])
    @@ ("repo-host-user" :> [type |-> "String", section |-> "Global", secure |-> FALSE,
                             multi |-> FALSE, group |-> FALSE, required |-> FALSE,
                             default |-> DefaultOf(<<"pgbackrest">>),
                             valid |-> {cfgCmdRestore}, depend |-> Depend("repo-host", <<>>)])

\* archive-async and spool-path: the one dependency of backup and archive-push
OptionDef ==
    [optionId \in DOMAIN OptionBase |-> OptionBase[optionId] @@ [depend |-> NoDepend]]
    @@ OptionDepend
    @@ ("archive-async" :> [type |-> "Boolean", section |-> "Global", secure |-> FALSE, multi |-> FALSE,
                            group |-> FALSE, required |-> TRUE, default |-> DefaultOf(<<"0">>),
                            valid |-> {cfgCmdArchivePush}, depend |-> NoDepend])
    @@ ("spool-path" :> [type |-> "Path", section |-> "Global", secure |-> FALSE, multi |-> FALSE,
                         group |-> FALSE, required |-> TRUE,
                         default |-> DefaultOf(<<"/", "var", "/", "spool">>),
                         valid |-> {cfgCmdArchivePush}, depend |-> Depend("archive-async", <<OPTION_VALUE_1>>)])

OptionIds == DOMAIN OptionDef

\* optionResolveOrder[]: every option after the options it depends on
optionResolveOrder ==
    <<"config", "config-include-path", "config-path", "stanza", "compress", "repo-cipher-pass",
      "exclude", "pg-path", "pg-port",
      "archive-async", "spool-path",
      "online", "force", "repo-type", "repo-s3-bucket", "type", "target", "repo-host", "repo-host-user">>

\* the options by id, as the loop of Phase 4 visits them
OptionIdOrder ==
    <<"archive-async", "compress", "config", "config-include-path", "config-path", "exclude",
      "force", "online", "pg-path", "pg-port", "repo-cipher-pass", "repo-host", "repo-host-user",
      "repo-s3-bucket", "repo-type", "spool-path", "stanza", "target", "type">>

CFG_OPTION_TOTAL == Len(optionResolveOrder)

\* raw indexes an indexed option can have (pg1-*, pg2-*)
CFG_OPTION_INDEX_MAX == 2

cfgDefOptionSecure(optionId) == OptionDef[optionId].secure

cfgDefOptionMulti(optionId) == OptionDef[optionId].multi

cfgDefOptionType(optionId) == OptionDef[optionId].type

cfgDefOptionSection(optionId) == OptionDef[optionId].section

cfgDefOptionValid(commandId, optionId) == commandId \in OptionDef[optionId].valid

cfgDefOptionDefault(commandId, optionId) == OptionDef[optionId].default

cfgDefOptionRequired(commandId, optionId) == OptionDef[optionId].required

cfgDefOptionDepend(commandId, optionId) == OptionDef[optionId].depend.has

cfgDefOptionDependOption(commandId, optionId) == OptionDef[optionId].depend.opt

cfgDefOptionDependValueTotal(commandId, optionId) == Len(OptionDef[optionId].depend.values)

cfgDefOptionDependValue(commandId, optionId, listIdx) == OptionDef[optionId].depend.values[listIdx + 1]

cfgDefOptionDependValueValid(commandId, optionId, value) ==
    \E i \in 1..Len(OptionDef[optionId].depend.values) : OptionDef[optionId].depend.values[i] = value

cfgOptionGroup(optionId) == OptionDef[optionId].group

\* one group, pg, holds every indexed option of the table
cfgOptionGroupId(optionId) == "pg"

GroupIds == {"pg"}

\* parameters after the command are allowed for archive-push only
cfgParameterAllowed(commandId) == commandId = cfgCmdArchivePush

\* cfgCommandId(): the command of a name, cfgCmdNone for any other text
cfgCommandId(name) == IF name \in CommandIds THEN name ELSE cfgCmdNone

\* ------------------------------------------------------------------------
\* Errors
\* ------------------------------------------------------------------------
\* type and msg: the error and the fixed part of its text; opt, idx, cmd: the
\* option and command names the text holds; dep, no, values: the depend option
\* named (as no-<dep> when no), and the allowed values listed after it
NoError ==
    [type |-> "", msg |-> "", opt |-> "", idx |-> 0, cmd |-> "", dep |-> "", no |-> FALSE, values |-> <<>>,
     errorValue |-> <<>>]

Error(type, msg) == [NoError EXCEPT !.type = type, !.msg = msg]

OptError(type, msg, optionId, optionIdx) ==
    [NoError EXCEPT !.type = type, !.msg = msg, !.opt = optionId, !.idx = optionIdx]

OptCmdError(type, msg, optionId, commandId) ==
    [NoError EXCEPT !.type = type, !.msg = msg, !.opt = optionId, !.cmd = commandId]

\* strLstJoin(list, ", ")
strLstJoin(list) ==
    LET upTo[k \in 0..Len(list)] ==
            IF k = 0 THEN <<>>
            ELSE upTo[k - 1] \o (IF k > 1 THEN <<",", " ">> ELSE <<>>) \o list[k]
    IN  upTo[Len(list)]

\* DependErrorValue() had it no case for a list of one value (line 1117)
DependErrorValueIn(values) ==
    LET dependValueList == [k \in 1..Len(values) |-> <<"'">> \o values[k] \o <<"'">>]
    IN  IF Len(dependValueList) > 0
            THEN <<" ", "i", "n", " ", "(">> \o strLstJoin(dependValueList) \o <<")">>
        ELSE <<>>

\* lines 1105-1120: each value in quotes, and the text after the depend option's name
DependErrorValue(values) ==
    LET dependValueList == [k \in 1..Len(values) |-> <<"'">> \o values[k] \o <<"'">>]
    IN  IF Len(dependValueList) = 1 THEN <<" ", "=", " ">> \o dependValueList[1]
        ELSE IF Len(dependValueList) > 1
            THEN <<" ", "i", "n", " ", "(">> \o strLstJoin(dependValueList) \o <<")">>
        ELSE <<>>

DependError(optionId, dependOptionId, no, values) ==
    [NoError EXCEPT !.type = "OptionInvalidError", !.msg = "not valid without option", !.opt = optionId,
                    !.dep = dependOptionId, !.no = no, !.values = values,
                    !.errorValue = DependErrorValue(values)]

\* ------------------------------------------------------------------------
\* Staging records: struct ParseOptionValue and struct ParseOption
\* ------------------------------------------------------------------------
\* valueList <<>> is the NULL list: a list that exists holds a value
ParseOptionValue(found, negate, reset, source, valueList) ==
    [found |-> found, negate |-> negate, reset |-> reset, source |-> source, valueList |-> valueList]

\* ParseOption parseOptionList[CFG_OPTION_TOTAL] = {0}; indexList <<>> is NULL
ParseOptionZero == [indexListAlloc |-> 0, indexListTotal |-> 0, indexList |-> <<>>]

\* A pointer to a staging record: NULL, or the place (optionId, optionIdx)
NULL == [null |-> TRUE, id |-> "", idx |-> 0]

AddrOf(optionId, optionIdx) == [null |-> FALSE, id |-> optionId, idx |-> optionIdx]

VARIABLES
    pc,                 \* phase of configParse: P1..P5, or how it ended
    err,                \* the error thrown, NoError while none
    nullMem,            \* what the build finds at address 0
    parseOptionList,    \* staging table of P1-P3
    command,            \* cfgCommand()
    commandRole,        \* cfgCommandRole()
    commandHelp,        \* cfgCommandHelp()
    commandSet,         \* local of P1
    argFound,           \* local of P1
    commandParamList,   \* local of P1, <<>> is NULL
    paramList,          \* cfgCommandParam(), set by cfgCommandParamSet()
    argLog,             \* the tokens getopt_long() has returned so far
    envLog,             \* the PGBACKREST_* variables P2 has read so far
    file,               \* P3: what cfgFileLoad() returned and the position in it
    fileLog,            \* the (section, key) pairs P3 has read so far
    config,             \* the Config being built by P4 and P5
    optionOrderIdx,     \* P5: where the loop over optionResolveOrder ended
    valueStaged,        \* P5, a Size option: strLstGet(parseOptionValue->valueList, 0)
    valueStr,           \* P5, a Size option: the local value given to convertToByte()
    valueDbl,           \* P5, a Size option: the local valueDbl given to convertToByte()
    logWarn             \* what LOG_WARN_FMT() has written so far

vars == <<pc, err, nullMem, parseOptionList, command, commandRole, commandHelp, commandSet, argFound,
          commandParamList, paramList, argLog, envLog, file, fileLog, config, optionOrderIdx,
          valueStaged, valueStr, valueDbl, logWarn>>

\* the inputs read so far, against MaxInput
InputRead == Len(argLog) + Len(envLog) + Len(fileLog)

p1Vars == <<command, commandRole, commandHelp, commandSet, argFound, commandParamList, paramList>>

laterVars == <<envLog, file, fileLog, config, optionOrderIdx>>

\* the locals of the numeric branch of P5, lines 1169-1176
sizeVars == <<valueStaged, valueStr, valueDbl>>

\* ------------------------------------------------------------------------
\* parseOptionIdxValue(): the indexed value, NULL when the index is not below
\* indexListTotal. Nothing in parse.c allocates indexList or raises
\* indexListTotal.
\* ------------------------------------------------------------------------
parseOptionIdxValue(optionId, optionIdx) ==
    IF optionIdx < parseOptionList[optionId].indexListTotal
        THEN AddrOf(optionId, optionIdx)
        ELSE NULL

\* ------------------------------------------------------------------------
\* Access through a ParseOptionValue pointer. Dereferencing NULL is undefined
\* behaviour; what it does depends on what the build has at address 0:
\*   unmapped  every access is a SIGSEGV (the hosted builds)
\*   rw        reads and writes work: every NULL pointer names one shared record
\* and the bytes found there at start are arbitrary.
\* ------------------------------------------------------------------------
CanRead(ptr) == ptr.null => nullMem.mode # "unmapped"

CanWrite(ptr) == ptr.null => nullMem.mode = "rw"

Load(ptr) ==
    IF ptr.null THEN nullMem.rec ELSE parseOptionList[ptr.id].indexList[ptr.idx + 1]

\* valueList of a record never written is a wild pointer at address 0
WildList(ptr) == ptr.null /\ nullMem.wild

\* the staging table after *ptr = rec
StoreTable(ptr, rec) ==
    IF ptr.null THEN parseOptionList
    ELSE [parseOptionList EXCEPT ![ptr.id].indexList[ptr.idx + 1] = rec]

\* address 0 after *ptr = rec; wild says whether valueList is left as it was found
StoreNull(ptr, rec, wild) ==
    IF ptr.null THEN [nullMem EXCEPT !.rec = rec, !.wild = wild] ELSE nullMem

\* ------------------------------------------------------------------------
\* How one step of configParse ends
\* ------------------------------------------------------------------------
Continue(next, table, mem) == [pc |-> next, err |-> NoError, table |-> table, mem |-> mem]

Throw(e) == [pc |-> "throw", err |-> e, table |-> parseOptionList, mem |-> nullMem]

\* a throw after found and source have been written through the pointer
ThrowAfter(e, table, mem) == [pc |-> "throw", err |-> e, table |-> table, mem |-> mem]

Segv == [pc |-> "segv", err |-> NoError, table |-> parseOptionList, mem |-> nullMem]

Apply(r) ==
    /\ pc' = r.pc
    /\ err' = r.err
    /\ parseOptionList' = r.table
    /\ nullMem' = r.mem

\* ------------------------------------------------------------------------
\* Inputs: what getopt_long() returns for one element of argv
\* ------------------------------------------------------------------------
\* case 1: a non-option; name is the text split at ':'
ArgToken(name) ==
    [kind |-> "arg", name |-> name, id |-> "", idx |-> 0, negate |-> FALSE, reset |-> FALSE,
     hasArg |-> FALSE, arg |-> EMPTY_STR, deprecate |-> FALSE]

\* case '?' (unknown option) and case ':' (argument missing)
BadToken(kind) ==
    [kind |-> kind, name |-> <<>>, id |-> "", idx |-> 0, negate |-> FALSE, reset |-> FALSE,
     hasArg |-> FALSE, arg |-> EMPTY_STR, deprecate |-> FALSE]

\* default: an option of optionList[], its code unpacked with PARSE_OPTION_MASK,
\* PARSE_INDEX_SHIFT, PARSE_NEGATE_FLAG and PARSE_RESET_FLAG
OptToken(optionId, optionIdx, negate, reset, hasArg, arg) ==
    [kind |-> "opt", name |-> <<>>, id |-> optionId, idx |-> optionIdx, negate |-> negate,
     reset |-> reset, hasArg |-> hasArg, arg |-> arg, deprecate |-> FALSE]

\* an option given by a name whose code has PARSE_DEPRECATE_FLAG: the bit is
\* outside PARSE_OPTION_MASK and the index mask, so id and index are those of
\* the option's current name
DeprecatedToken(optionId, optionIdx, hasArg, arg) ==
    [kind |-> "opt", name |-> <<>>, id |-> optionId, idx |-> optionIdx, negate |-> FALSE,
     reset |-> FALSE, hasArg |-> hasArg, arg |-> arg, deprecate |-> TRUE]

ArgTokens ==
    {ArgToken(<<n>>) : n \in {"backup", "archive-push", "help", "version", "bogus"}}
        \cup {ArgToken(<<"backup", "local">>)}

OptTokens ==
    {OptToken("config", 0, FALSE, FALSE, TRUE, PathConf),
     OptToken("config", 0, TRUE, FALSE, FALSE, EMPTY_STR),
     OptToken("stanza", 0, FALSE, FALSE, TRUE, StrS),
     OptToken("compress", 0, FALSE, FALSE, FALSE, EMPTY_STR),
     OptToken("compress", 0, TRUE, FALSE, FALSE, EMPTY_STR),
     OptToken("compress", 0, FALSE, TRUE, FALSE, EMPTY_STR),
     OptToken("repo-cipher-pass", 0, FALSE, FALSE, TRUE, StrA),
     OptToken("exclude", 0, FALSE, FALSE, TRUE, StrA),
     OptToken("exclude", 0, FALSE, FALSE, TRUE, StrB),
     OptToken("pg-path", 0, FALSE, FALSE, TRUE, PathA),
     OptToken("pg-path", 1, FALSE, FALSE, TRUE, PathA),
     OptToken("spool-path", 0, FALSE, FALSE, TRUE, PathA),
     DeprecatedToken("pg-path", 0, TRUE, PathA)}

\* ------------------------------------------------------------------------
\* Phase 1: one pass of the getopt_long() loop
\* ------------------------------------------------------------------------
\* case 1, first argument: the command, with a role after ':' when the whole
\* text is no command
CommandOf(name) ==
    LET whole == IF Len(name) = 1 THEN cfgCommandId(name[1]) ELSE cfgCmdNone
    IN  IF whole # cfgCmdNone THEN whole
        ELSE IF Len(name) = 2 THEN cfgCommandId(name[1])
        ELSE cfgCmdNone

RoleOf(name) ==
    LET whole == IF Len(name) = 1 THEN cfgCommandId(name[1]) ELSE cfgCmdNone
    IN  IF whole = cfgCmdNone /\ Len(name) = 2 /\ cfgCommandId(name[1]) # cfgCmdNone
            THEN name[2]
            ELSE cfgCmdRoleDefault

P1Arg ==
    /\ pc = "P1"
    /\ Len(argLog) < MaxArgs
    /\ InputRead < MaxInput
    /\ \E tok \in ArgTokens :
        /\ argLog' = Append(argLog, tok)
        /\ IF ~commandSet
            THEN IF CommandOf(tok.name) = cfgCmdNone
                THEN /\ Apply(Throw(Error("CommandInvalidError", "invalid command")))
                     /\ UNCHANGED p1Vars
                ELSE /\ command' = CommandOf(tok.name)
                     /\ commandRole' = RoleOf(tok.name)
                     /\ commandHelp' = (commandHelp \/ CommandOf(tok.name) = cfgCmdHelp)
                     /\ commandSet' = (CommandOf(tok.name) # cfgCmdHelp)
                     /\ argFound' = TRUE
                     /\ UNCHANGED <<commandParamList, paramList>>
                     /\ Apply(Continue("P1", parseOptionList, nullMem))
            ELSE /\ commandParamList' = Append(commandParamList, tok.name)
                 /\ argFound' = TRUE
                 /\ UNCHANGED <<command, commandRole, commandHelp, commandSet, paramList>>
                 /\ Apply(Continue("P1", parseOptionList, nullMem))
    /\ UNCHANGED laterVars
    /\ UNCHANGED sizeVars
    /\ UNCHANGED logWarn

\* case '?' and case ':'
P1Bad ==
    /\ pc = "P1"
    /\ Len(argLog) < MaxArgs
    /\ InputRead < MaxInput
    /\ \E kind \in {"?", ":"} :
        /\ argLog' = Append(argLog, BadToken(kind))
        /\ Apply(Throw(Error("OptionInvalidError",
                             IF kind = "?" THEN "invalid option" ELSE "requires argument")))
    /\ UNCHANGED p1Vars
    /\ UNCHANGED laterVars
    /\ UNCHANGED sizeVars
    /\ UNCHANGED logWarn

\* default: an option with its id, index and flags
P1OptionFound(tok, ptr, optionValue) ==
    IF optionValue.negate /\ tok.negate
        THEN Throw(OptError("OptionInvalidError", "is negated multiple times", tok.id, tok.idx))
    ELSE IF optionValue.reset /\ tok.reset
        THEN Throw(OptError("OptionInvalidError", "is reset multiple times", tok.id, tok.idx))
    ELSE IF (optionValue.reset /\ tok.negate) \/ (optionValue.negate /\ tok.reset)
        THEN Throw(OptError("OptionInvalidError", "cannot be negated and reset", tok.id, tok.idx))
    ELSE IF optionValue.negate # tok.negate
        THEN Throw(OptError("OptionInvalidError", "cannot be set and negated", tok.id, tok.idx))
    ELSE IF optionValue.reset # tok.reset
        THEN Throw(OptError("OptionInvalidError", "cannot be set and reset", tok.id, tok.idx))
    ELSE IF tok.hasArg /\ cfgDefOptionMulti(tok.id)
        THEN IF WildList(ptr) \/ optionValue.valueList = <<>>
            THEN Segv
            ELSE LET rec == [optionValue EXCEPT !.valueList = Append(@, tok.arg)]
                 IN  Continue("P1", StoreTable(ptr, rec), StoreNull(ptr, rec, FALSE))
    ELSE Throw(OptError("OptionInvalidError", "cannot be set multiple times", tok.id, tok.idx))

P1OptionNew(tok, ptr) ==
    LET rec == ParseOptionValue(TRUE, tok.negate, tok.reset, cfgSourceParam,
                                IF tok.hasArg THEN <<tok.arg>> ELSE <<>>)
    IN  IF CanWrite(ptr)
            THEN Continue("P1", StoreTable(ptr, rec), StoreNull(ptr, rec, FALSE))
            ELSE Segv

\* P1OptionSecure() had it no test of cfgDefOptionSecure() (line 559)
P1OptionSecureUnchecked(tok) == Continue("P1", parseOptionList, nullMem)

P1OptionSecure(tok) ==
    IF cfgDefOptionSecure(tok.id)
        THEN Throw(OptError("OptionInvalidError", "is not allowed on the command-line", tok.id, tok.idx))
        ELSE Continue("P1", parseOptionList, nullMem)

P1OptionStep(tok) ==
    LET ptr == parseOptionIdxValue(tok.id, tok.idx)
    IN  IF P1OptionSecure(tok).pc = "throw" THEN P1OptionSecure(tok)
        ELSE IF ~CanRead(ptr) THEN Segv
        ELSE IF ~Load(ptr).found THEN P1OptionNew(tok, ptr)
        ELSE P1OptionFound(tok, ptr, Load(ptr))

P1Option ==
    /\ pc = "P1"
    /\ Len(argLog) < MaxArgs
    /\ InputRead < MaxInput
    /\ \E tok \in OptTokens :
        /\ argLog' = Append(argLog, tok)
        /\ Apply(P1OptionStep(tok))
        /\ argFound' = (argFound \/ P1OptionStep(tok).pc = "P1")
    /\ UNCHANGED <<command, commandRole, commandHelp, commandSet, commandParamList, paramList>>
    /\ UNCHANGED laterVars
    /\ UNCHANGED sizeVars
    /\ UNCHANGED logWarn

\* After the loop: command not found, command parameters, and whether the
\* options are validated at all
\* ContinueToOptions had it no test of cfgCmdVersion (line 676)
ContinueToOptionsOfVersion == command # cfgCmdNone /\ command # cfgCmdHelp

ContinueToOptions == command # cfgCmdNone /\ command # cfgCmdVersion /\ command # cfgCmdHelp

P1End ==
    /\ pc = "P1"
    /\ LET help == commandHelp \/ (~commandSet /\ ~argFound)
       IN  IF ~commandSet /\ ~commandHelp /\ argFound
               THEN /\ Apply(Throw(Error("CommandRequiredError", "no command found")))
                    /\ UNCHANGED <<commandHelp, paramList>>
           ELSE IF commandParamList # <<>> /\ ~help /\ ~cfgParameterAllowed(command)
               THEN /\ Apply(Throw(Error("ParamInvalidError", "command does not allow parameters")))
                    /\ commandHelp' = help
                    /\ UNCHANGED paramList
           ELSE /\ commandHelp' = help
                /\ paramList' = commandParamList
                /\ Apply(Continue(IF ContinueToOptions THEN "P2" ELSE "return",
                                  parseOptionList, nullMem))
    /\ UNCHANGED <<command, commandRole, commandSet, argFound, commandParamList>>
    /\ UNCHANGED <<argLog, envLog, file, fileLog, config, optionOrderIdx>>
    /\ UNCHANGED sizeVars
    /\ UNCHANGED logWarn

\* ------------------------------------------------------------------------
\* Phase 2: one pass of the loop over environ
\* ------------------------------------------------------------------------
\* kind: other (no PGBACKREST_ prefix), unknown, negate, reset (what optionFind()
\* and the flags of optionList[findIdx].val say of the key), or opt
EnvVar(kind, optionId, optionIdx, value) ==
    [kind |-> kind, id |-> optionId, idx |-> optionIdx, value |-> value]

EnvVars ==
    {EnvVar(k, "", 0, StrA) : k \in {"other", "unknown", "negate", "reset"}}
        \cup {EnvVar("opt", "compress", 0, v) : v \in {StrY, StrN, StrA}}
        \cup {EnvVar("opt", "stanza", 0, StrS),
              EnvVar("opt", "stanza", 0, EMPTY_STR),
              EnvVar("opt", "exclude", 0, <<"a", ":", "b">>),
              EnvVar("opt", "pg-path", 1, PathA)}

\* strLstNewSplitZ(value, ":")
RECURSIVE SplitFrom(_, _, _)
SplitFrom(value, pos, part) ==
    IF pos > Len(value) THEN <<part>>
    ELSE IF value[pos] = ":" THEN <<part>> \o SplitFrom(value, pos + 1, <<>>)
    ELSE SplitFrom(value, pos + 1, Append(part, value[pos]))

strLstNewSplitZ(value) == SplitFrom(value, 1, <<>>)

\* lines 733-763: the variable names an option valid for the command
P2EnvStore(var, ptr) ==
    LET optionValue == Load(ptr)
        base == [optionValue EXCEPT !.found = TRUE, !.source = cfgSourceConfig]
    IN  IF optionValue.found THEN Continue("P2", parseOptionList, nullMem)
        ELSE IF ~CanWrite(ptr) THEN Segv
        ELSE IF cfgDefOptionType(var.id) = "Boolean"
            THEN IF var.value = StrN
                THEN LET rec == [base EXCEPT !.negate = TRUE]
                     IN  Continue("P2", StoreTable(ptr, rec), StoreNull(ptr, rec, nullMem.wild))
                ELSE IF var.value # StrY
                    THEN ThrowAfter(OptError("OptionInvalidValueError",
                                             "environment boolean option must be 'y' or 'n'", var.id, var.idx),
                                    StoreTable(ptr, base), StoreNull(ptr, base, nullMem.wild))
                    ELSE Continue("P2", StoreTable(ptr, base), StoreNull(ptr, base, nullMem.wild))
        ELSE IF cfgDefOptionMulti(var.id)
            THEN LET rec == [base EXCEPT !.valueList = strLstNewSplitZ(var.value)]
                 IN  Continue("P2", StoreTable(ptr, rec), StoreNull(ptr, rec, FALSE))
        ELSE LET rec == [base EXCEPT !.valueList = <<var.value>>]
             IN  Continue("P2", StoreTable(ptr, rec), StoreNull(ptr, rec, FALSE))

\* one line of LOG_WARN_FMT(): the message and the input it names
LogWarn(text, input) == [text |-> text, input |-> input]

\* lines 707-723: the variables that are skipped with a warning
P2EnvWarn(var) ==
    IF var.kind = "unknown" THEN <<LogWarn("environment contains invalid option", var)>>
    ELSE IF var.kind = "negate" THEN <<LogWarn("environment contains invalid negate option", var)>>
    ELSE IF var.kind = "reset" THEN <<LogWarn("environment contains invalid reset option", var)>>
    ELSE <<>>

P2EnvStep(var) ==
    IF var.kind # "opt" THEN Continue("P2", parseOptionList, nullMem)
    ELSE IF ~cfgDefOptionValid(command, var.id) THEN Continue("P2", parseOptionList, nullMem)
    ELSE IF var.value = EMPTY_STR
        THEN Throw(OptError("OptionInvalidValueError", "environment variable must have a value",
                            var.id, var.idx))
    ELSE IF ~CanRead(parseOptionIdxValue(var.id, var.idx)) THEN Segv
    ELSE P2EnvStore(var, parseOptionIdxValue(var.id, var.idx))

P2Env ==
    /\ pc = "P2"
    /\ Len(envLog) < MaxEnv
    /\ InputRead < MaxInput
    /\ \E var \in EnvVars :
        /\ envLog' = Append(envLog, var)
        /\ Apply(P2EnvStep(var))
        /\ logWarn' = logWarn \o P2EnvWarn(var)
    /\ UNCHANGED p1Vars
    /\ UNCHANGED <<argLog, file, fileLog, config, optionOrderIdx>>
    /\ UNCHANGED sizeVars

\* ------------------------------------------------------------------------
\* cfgFileLoad(): the storage it reads, and the text it assembles
\* ------------------------------------------------------------------------
\* PGBACKREST_CONFIG_ORIG_PATH_FILE
PGBACKREST_CONFIG_ORIG_PATH_FILE == <<"/", "etc", "/", "pgbackrest.conf">>

\* PGBACKREST_CONFIG_INCLUDE_PATH
PGBACKREST_CONFIG_INCLUDE_PATH == "conf.d"

LF_STR == <<"\n">>

NullText == [null |-> TRUE, text |-> EMPTY_STR]

Text(t) == [null |-> FALSE, text |-> t]

\* A storage: the files by path (absent ones are missing) and the directories by
\* path, each a sequence of entries [name, null, text] in the order storageListP()
\* returns them; names are numbers, compared as strLstSort() compares the names
Storage(files, dirs) == [files |-> files, dirs |-> dirs]

\* storageGetP(storageNewReadP(storageLocal(), path, .ignoreMissing = ...)): NULL when missing
storageGet(storage, path) ==
    IF \E f \in storage.files : f.path = path
        THEN Text((CHOOSE f \in storage.files : f.path = path).text)
        ELSE NullText

\* strBaseZ(): the text after the last '/'
RECURSIVE strBase(_)
strBase(path) ==
    IF path = <<>> THEN <<>>
    ELSE IF path[Len(path)] = "/" THEN <<>>
    ELSE Append(strBase(SubSeq(path, 1, Len(path) - 1)), path[Len(path)])

\* strLstSort(list, sortOrderAsc) on the entries of a directory
RECURSIVE SortAsc(_)
SortAsc(list) ==
    IF list = <<>> THEN <<>>
    ELSE LET least == CHOOSE i \in 1..Len(list) : \A j \in 1..Len(list) : list[i].name <= list[j].name
         IN  <<list[least]>> \o SortAsc(SubSeq(list, 1, least - 1) \o SubSeq(list, least + 1, Len(list)))

\* cfgFileLoadPart() had strCat(*config, LF_STR) been outside the if/else (line 305)
cfgFileLoadPartLfAlways(configText, configPart) ==
    IF configPart.null THEN configText
    ELSE IF Len(configPart.text) = 0 THEN configText
    ELSE Text(configText.text \o LF_STR \o configPart.text)

\* cfgFileLoadPart(): the else of "if (*config == NULL)" governs strCat(*config, LF_STR)
cfgFileLoadPart(configText, configPart) ==
    IF configPart.null THEN configText
    ELSE IF Len(configPart.text) = 0 THEN configText
    ELSE IF configText.null THEN Text(EMPTY_STR \o configPart.text)
    ELSE Text(configText.text \o LF_STR \o configPart.text)

\* the loop over the sorted list, lines 429-437
RECURSIVE LoadParts(_, _)
LoadParts(configText, list) ==
    IF list = <<>> THEN configText
    ELSE LoadParts(cfgFileLoadPart(configText, [null |-> list[1].null, text |-> list[1].text]),
                   Tail(list))

\* optionList[id].indexList != NULL && optionList[id].indexList[0].found
IndexZeroFound(optionList, optionId) ==
    optionList[optionId].indexList # <<>> /\ optionList[optionId].indexList[1].found

IndexZeroNegate(optionList, optionId) ==
    optionList[optionId].indexList # <<>> /\ optionList[optionId].indexList[1].negate

IndexZeroValue(optionList, optionId) == optionList[optionId].indexList[1].valueList[1]

\* The result of cfgFileLoad(): [err, result, read, main, list], read being the paths
\* of the main files it has asked the storage for, main the buffer of the main file
\* it got, and list what storageListP() gave it
cfgFileLoad(optionList, optConfigDefaultIn, optConfigIncludePathDefaultIn, origConfigDefault, storage) ==
    LET configPathRequired == IndexZeroFound(optionList, cfgOptConfigPath)
        negated == IndexZeroNegate(optionList, cfgOptConfig)
        loadConfig == ~negated
        configRequired == IndexZeroFound(optionList, cfgOptConfig) /\ ~negated
        includeGiven == IndexZeroFound(optionList, cfgOptConfigIncludePath)
        suppress == configRequired /\ ~(configPathRequired \/ includeGiven)
        loadConfigInclude == ~suppress
        configIncludeRequired == includeGiven /\ ~suppress
        optConfigDefaultCurrent == optConfigDefaultIn
        optConfigDefault ==
            IF configPathRequired
                THEN IndexZeroValue(optionList, cfgOptConfigPath) \o <<"/">> \o strBase(optConfigDefaultIn)
                ELSE optConfigDefaultIn
        optConfigIncludePathDefault ==
            IF configPathRequired
                THEN IndexZeroValue(optionList, cfgOptConfigPath) \o <<"/", PGBACKREST_CONFIG_INCLUDE_PATH>>
                ELSE optConfigIncludePathDefaultIn
        configFileName ==
            IF configRequired THEN IndexZeroValue(optionList, cfgOptConfig) ELSE optConfigDefault
        first == storageGet(storage, configFileName)
        firstError == loadConfig /\ first.null /\ configRequired
        tryOrig == loadConfig /\ first.null /\ ~firstError /\ configFileName = optConfigDefaultCurrent
        second == storageGet(storage, origConfigDefault)
        mainError == firstError \/ (tryOrig /\ second.null /\ configRequired)
        main ==
            IF ~loadConfig THEN NullText
            ELSE IF ~first.null THEN first
            ELSE IF tryOrig THEN second
            ELSE NullText
        read ==
            IF ~loadConfig THEN <<>>
            ELSE IF tryOrig THEN <<configFileName, origConfigDefault>>
            ELSE <<configFileName>>
        configIncludePath ==
            IF configIncludeRequired
                THEN IndexZeroValue(optionList, cfgOptConfigIncludePath)
                ELSE optConfigIncludePathDefault
        dirExists == \E d \in storage.dirs : d.path = configIncludePath
        list == IF dirExists THEN (CHOOSE d \in storage.dirs : d.path = configIncludePath).list ELSE <<>>
    IN  IF mainError
            THEN [err |-> Error("FileMissingError", "unable to open missing file"), result |-> NullText,
                  read |-> read, main |-> NullText, list |-> <<>>]
        ELSE IF loadConfigInclude /\ ~dirExists /\ configIncludeRequired
            THEN [err |-> Error("PathMissingError", "unable to list missing path"), result |-> NullText,
                  read |-> read, main |-> NullText, list |-> <<>>]
        ELSE IF loadConfigInclude
            THEN [err |-> NoError, result |-> LoadParts(main, SortAsc(list)), read |-> read,
                  main |-> main, list |-> list]
        ELSE [err |-> NoError, result |-> main, read |-> read, main |-> main, list |-> <<>>]

\* ------------------------------------------------------------------------
\* Phase 3: load the configuration file(s), then one pass of the loop over the
\* keys of a section
\* ------------------------------------------------------------------------
\* a section name is the sequence of its characters, the command name at its
\* end one element: strBeginsWithZ() compares character by character
CFGDEF_SECTION_GLOBAL == <<"g", "l", "o", "b", "a", "l">>

FileMain == [path |-> OptionDef["config"].default.s, text |-> <<"m">>]

FileOrig == [path |-> PGBACKREST_CONFIG_ORIG_PATH_FILE, text |-> <<"o">>]

DirInclude ==
    [path |-> OptionDef["config-include-path"].default.s,
     list |-> <<[name |-> 2, null |-> FALSE, text |-> <<"i2">>],
                [name |-> 1, null |-> FALSE, text |-> <<"i1">>]>>]

\* the storages configParse() is run on
Storages ==
    {Storage({}, {}), Storage({FileOrig}, {}), Storage({FileMain}, {DirInclude})}

\* struct of the P3 loop: the Ini is read as the loop goes, a section's keys being
\* distinct names; storage is the storage cfgFileLoad() has read, none before it
FileInit ==
    [loaded |-> FALSE, configString |-> NullText, read |-> <<>>, sectionList |-> <<>>, sectionIdx |-> 0,
     keyList |-> <<>>, optionFound |-> {}, storage |-> Storage({}, {}), main |-> NullText, list |-> <<>>]

BeginsWith(text, prefix) ==
    Len(text) >= Len(prefix) /\ SubSeq(text, 1, Len(prefix)) = prefix

\* lines 784-794
SectionList(stanza, commandName) ==
    (IF stanza.null THEN <<>> ELSE <<stanza.text \o <<":", commandName>>, stanza.text>>)
        \o <<CFGDEF_SECTION_GLOBAL \o <<":", commandName>>, CFGDEF_SECTION_GLOBAL>>

P3Load ==
    /\ pc = "P3"
    /\ ~file.loaded
    /\ \E storage \in Storages :
        LET loaded == cfgFileLoad(parseOptionList, cfgDefOptionDefault(command, cfgOptConfig).s,
                                  cfgDefOptionDefault(command, cfgOptConfigIncludePath).s,
                                  PGBACKREST_CONFIG_ORIG_PATH_FILE, storage)
            stanza == IF IndexZeroFound(parseOptionList, cfgOptStanza)
                          THEN Text(IndexZeroValue(parseOptionList, cfgOptStanza))
                          ELSE NullText
        IN  IF loaded.err # NoError
                THEN /\ Apply(Throw(loaded.err))
                     /\ file' = [file EXCEPT !.read = loaded.read, !.storage = storage]
            ELSE /\ Apply(Continue(IF loaded.result.null THEN "P4" ELSE "P3", parseOptionList, nullMem))
                 /\ file' = [file EXCEPT !.loaded = TRUE, !.configString = loaded.result,
                                         !.read = loaded.read, !.storage = storage,
                                         !.main = loaded.main, !.list = loaded.list,
                                         !.sectionList = SectionList(stanza, command),
                                         !.sectionIdx = 0]
    /\ UNCHANGED p1Vars
    /\ UNCHANGED <<argLog, envLog, fileLog, config, optionOrderIdx>>
    /\ UNCHANGED sizeVars
    /\ UNCHANGED logWarn

\* A key of a section: its name, what optionFind() and the flags say of it (kind),
\* the option and index it names, and its value: a list when iniSectionKeyIsList()
IniKey(name, kind, optionId, optionIdx, isList, value) ==
    [name |-> name, kind |-> kind, id |-> optionId, idx |-> optionIdx, isList |-> isList,
     value |-> value]

IniKeys ==
    {IniKey("bogus", "unknown", "", 0, FALSE, <<StrA>>),
     IniKey("no-compress", "negate", "compress", 0, FALSE, <<StrA>>),
     IniKey("reset-compress", "reset", "compress", 0, FALSE, <<StrA>>),
     IniKey("config", "opt", "config", 0, FALSE, <<PathConf>>),
     IniKey("compress", "opt", "compress", 0, FALSE, <<StrN>>),
     IniKey("compress", "opt", "compress", 0, FALSE, <<StrA>>),
     IniKey("exclude", "opt", "exclude", 0, TRUE, <<StrA, StrB>>),
     IniKey("repo-cipher-pass", "opt", "repo-cipher-pass", 0, FALSE, <<EMPTY_STR>>),
     IniKey("repo1-cipher-pass", "opt", "repo-cipher-pass", 0, FALSE, <<StrA>>),
     IniKey("pg1-path", "opt", "pg-path", 0, FALSE, <<PathA>>),
     IniKey("pg2-path", "opt", "pg-path", 1, FALSE, <<PathA>>),
     IniKey("db-path", "opt", "pg-path", 0, FALSE, <<PathA>>)}

\* P3KeyStore() had it no test of optionValue->found (line 881)
P3KeyStoreOverFound(key, section, ptr) ==
    LET rec == [Load(ptr) EXCEPT !.found = TRUE, !.source = cfgSourceConfig,
                                 !.negate = (key.value[1] = StrN),
                                 !.valueList = IF key.isList THEN key.value ELSE <<key.value[1]>>]
    IN  IF ~CanWrite(ptr) THEN Segv
        ELSE Continue("P3", StoreTable(ptr, rec), StoreNull(ptr, rec, FALSE))

\* lines 878-925: the key names an option that may be stored
P3KeyStore(key, section, ptr) ==
    LET optionValue == Load(ptr)
        base == [optionValue EXCEPT !.found = TRUE, !.source = cfgSourceConfig]
    IN  IF optionValue.found THEN Continue("P3", parseOptionList, nullMem)
        ELSE IF ~CanWrite(ptr) THEN Segv
        ELSE IF key.isList
            THEN IF ~cfgDefOptionMulti(key.id)
                THEN ThrowAfter(OptError("OptionInvalidError", "cannot be set multiple times", key.id, key.idx),
                                StoreTable(ptr, base), StoreNull(ptr, base, nullMem.wild))
                ELSE LET rec == [base EXCEPT !.valueList = key.value]
                     IN  Continue("P3", StoreTable(ptr, rec), StoreNull(ptr, rec, FALSE))
        ELSE IF key.value[1] = EMPTY_STR
            THEN ThrowAfter(OptError("OptionInvalidValueError", "must have a value", key.id, key.idx),
                            StoreTable(ptr, base), StoreNull(ptr, base, nullMem.wild))
        ELSE IF cfgDefOptionType(key.id) = "Boolean"
            THEN IF key.value[1] = StrN
                THEN LET rec == [base EXCEPT !.negate = TRUE]
                     IN  Continue("P3", StoreTable(ptr, rec), StoreNull(ptr, rec, nullMem.wild))
                ELSE IF key.value[1] # StrY
                    THEN ThrowAfter(OptError("OptionInvalidValueError", "boolean option must be 'y' or 'n'",
                                             key.id, key.idx),
                                    StoreTable(ptr, base), StoreNull(ptr, base, nullMem.wild))
                    ELSE Continue("P3", StoreTable(ptr, base), StoreNull(ptr, base, nullMem.wild))
        ELSE LET rec == [base EXCEPT !.valueList = <<key.value[1]>>]
             IN  Continue("P3", StoreTable(ptr, rec), StoreNull(ptr, rec, FALSE))

\* lines 808-876: the keys that are skipped, and the duplicate check
P3KeyStep(key, section, sectionIdx) ==
    IF key.kind # "opt" THEN Continue("P3", parseOptionList, nullMem)
    ELSE IF cfgDefOptionSection(key.id) = "CommandLine" THEN Continue("P3", parseOptionList, nullMem)
    ELSE IF \E f \in file.optionFound : f.id = key.id
        THEN Throw([OptError("OptionInvalidError", "configuration file contains duplicate options",
                             key.id, key.idx)
                        EXCEPT !.values = <<<<key.name>>,
                                            <<(CHOOSE f \in file.optionFound : f.id = key.id).name>>,
                                            section>>])
    ELSE IF ~cfgDefOptionValid(command, key.id) THEN Continue("P3", parseOptionList, nullMem)
    ELSE IF cfgDefOptionSection(key.id) = "Stanza" /\ BeginsWith(section, CFGDEF_SECTION_GLOBAL)
        THEN Continue("P3", parseOptionList, nullMem)
    ELSE IF ~CanRead(parseOptionIdxValue(key.id, key.idx)) THEN Segv
    ELSE P3KeyStore(key, section, parseOptionIdxValue(key.id, key.idx))

\* lines 811-875: the warnings of the keys that are skipped
P3KeyWarn(key, section, sectionIdx) ==
    IF key.kind = "unknown"
        THEN <<LogWarn("configuration file contains invalid option", key)>>
    ELSE IF key.kind = "negate"
        THEN <<LogWarn("configuration file contains negate option", key)>>
    ELSE IF key.kind = "reset"
        THEN <<LogWarn("configuration file contains reset option", key)>>
    ELSE IF key.kind # "opt" THEN <<>>
    ELSE IF cfgDefOptionSection(key.id) = "CommandLine"
        THEN <<LogWarn("configuration file contains command-line only option", key)>>
    ELSE IF \E f \in file.optionFound : f.id = key.id THEN <<>>
    ELSE IF ~cfgDefOptionValid(command, key.id)
        THEN IF sectionIdx % 2 = 0
            THEN <<LogWarn("configuration file contains option invalid for section", key)>>
            ELSE <<>>
    ELSE IF cfgDefOptionSection(key.id) = "Stanza" /\ BeginsWith(section, CFGDEF_SECTION_GLOBAL)
        THEN <<LogWarn("configuration file contains stanza-only option in global section", key)>>
    ELSE <<>>

\* whether kvPut(optionFound, ...) is reached for the key
P3KeyRecorded(key) ==
    /\ key.kind = "opt"
    /\ cfgDefOptionSection(key.id) # "CommandLine"
    /\ ~\E f \in file.optionFound : f.id = key.id

P3Key ==
    /\ pc = "P3"
    /\ file.loaded
    /\ Len(fileLog) < MaxKeys
    /\ InputRead < MaxInput
    /\ \E key \in IniKeys :
        /\ \A k \in 1..Len(file.keyList) : file.keyList[k] # key.name
        /\ fileLog' = Append(fileLog, [sectionIdx |-> file.sectionIdx, key |-> key])
        /\ Apply(P3KeyStep(key, file.sectionList[file.sectionIdx + 1], file.sectionIdx))
        /\ logWarn' = logWarn \o P3KeyWarn(key, file.sectionList[file.sectionIdx + 1], file.sectionIdx)
        /\ file' = [file EXCEPT !.keyList = Append(@, key.name),
                                !.optionFound = IF P3KeyRecorded(key)
                                                    THEN @ \cup {[id |-> key.id, name |-> key.name]}
                                                    ELSE @]
    /\ UNCHANGED p1Vars
    /\ UNCHANGED <<argLog, envLog, config, optionOrderIdx>>
    /\ UNCHANGED sizeVars

\* the end of a section's keys: the next section, or Phase 4 after the last one
P3SectionEnd ==
    /\ pc = "P3"
    /\ file.loaded
    /\ file' = [file EXCEPT !.sectionIdx = @ + 1, !.keyList = <<>>, !.optionFound = {}]
    /\ Apply(Continue(IF file.sectionIdx + 1 < Len(file.sectionList) THEN "P3" ELSE "P4",
                      parseOptionList, nullMem))
    /\ UNCHANGED p1Vars
    /\ UNCHANGED <<argLog, envLog, fileLog, config, optionOrderIdx>>
    /\ UNCHANGED sizeVars
    /\ UNCHANGED logWarn

\* the end of environ: Phase 3 begins
P2End ==
    /\ pc = "P2"
    /\ Apply(Continue("P3", parseOptionList, nullMem))
    /\ UNCHANGED p1Vars
    /\ UNCHANGED <<argLog, envLog, file, fileLog, config, optionOrderIdx>>
    /\ UNCHANGED sizeVars
    /\ UNCHANGED logWarn

\* ------------------------------------------------------------------------
\* The Config built by P4 and P5, after struct Config of config/config.intern.h
\* and cfgOptionSet() and cfgOption() of config/config.c: per option valid and the negate and reset flags of each
\* index, per group indexTotal and index[], and per option the value and the
\* source cfgOptionSet() was last given.
\* ------------------------------------------------------------------------
VarNull == [t |-> "null", b |-> FALSE, s |-> EMPTY_STR, l |-> <<>>]

VarBool(b) == [t |-> "bool", b |-> b, s |-> EMPTY_STR, l |-> <<>>]

VarStr(s) == [t |-> "str", b |-> FALSE, s |-> s, l |-> <<>>]

VarLst(l) == [t |-> "list", b |-> FALSE, s |-> EMPTY_STR, l |-> l]

ConfigInit ==
    [option |-> [optionId \in OptionIds |->
                    [valid |-> FALSE,
                     index |-> [i \in 1..CFG_OPTION_INDEX_MAX |-> [negate |-> FALSE, reset |-> FALSE]],
                     set |-> FALSE, source |-> cfgSourceDefault, value |-> VarNull]],
     optionGroup |-> [groupId \in GroupIds |-> [indexTotal |-> 0, index |-> <<>>]]]

\* cfgOptionSet(): the value is stored as the option's type has it
cfgOptionSet(cfg, optionId, source, value) ==
    LET typed == IF cfgDefOptionType(optionId) = "Boolean" /\ value.t = "str"
                     THEN VarBool(value.s # OPTION_VALUE_0)
                     ELSE value
    IN  [cfg EXCEPT ![optionId].set = TRUE, ![optionId].source = source, ![optionId].value = typed]

\* cfgOption()
cfgOption(cfg, optionId) == cfg[optionId].value

\* ------------------------------------------------------------------------
\* Phase 4: the options valid for the command, and the indexes used in each group
\* ------------------------------------------------------------------------
\* groupIdxMap[groupId][optionIdx], lines 969-984
GroupIdxMap(groupId, optionIdx) ==
    \E optionId \in OptionIds :
        /\ cfgDefOptionValid(command, optionId)
        /\ cfgOptionGroup(optionId)
        /\ cfgOptionGroupId(optionId) = groupId
        /\ optionIdx < parseOptionList[optionId].indexListTotal
        /\ parseOptionList[optionId].indexList[optionIdx + 1].found

\* lines 987-1000: the marked indexes in increasing order
RECURSIVE GroupIndexFrom(_, _)
GroupIndexFrom(groupId, optionIdx) ==
    IF optionIdx >= CFG_OPTION_INDEX_MAX THEN <<>>
    ELSE (IF GroupIdxMap(groupId, optionIdx) THEN <<optionIdx>> ELSE <<>>)
            \o GroupIndexFrom(groupId, optionIdx + 1)

\* lines 955-963: an option not valid for the command with indexListTotal > 0
P4Invalid(optionId) ==
    ~cfgDefOptionValid(command, optionId) /\ parseOptionList[optionId].indexListTotal > 0

P4 ==
    /\ pc = "P4"
    /\ IF \E i \in 1..Len(OptionIdOrder) : P4Invalid(OptionIdOrder[i])
        THEN LET first == CHOOSE i \in 1..Len(OptionIdOrder) :
                             /\ P4Invalid(OptionIdOrder[i])
                             /\ \A j \in 1..(i - 1) : ~P4Invalid(OptionIdOrder[j])
             IN  /\ Apply(Throw(OptCmdError("OptionInvalidError", "not valid for command",
                                            OptionIdOrder[first], command)))
                 /\ UNCHANGED <<config, optionOrderIdx>>
        ELSE /\ config' =
                    [option |-> [optionId \in OptionIds |->
                                    [config.option[optionId] EXCEPT
                                        !.valid = cfgDefOptionValid(command, optionId)]],
                     optionGroup |-> [groupId \in GroupIds |->
                                        [indexTotal |-> Len(GroupIndexFrom(groupId, 0)),
                                         index |-> GroupIndexFrom(groupId, 0)]]]
             /\ optionOrderIdx' = 0
             /\ Apply(Continue("P5", parseOptionList, nullMem))
    /\ UNCHANGED p1Vars
    /\ UNCHANGED <<argLog, envLog, file, fileLog>>
    /\ UNCHANGED sizeVars
    /\ UNCHANGED logWarn

\* ------------------------------------------------------------------------
\* Phase 5: the loop over optionResolveOrder, every index of each option
\* included. The option table has no Hash, Integer, Float or Size
\* option, no allow list and no allow range: those branches are left out.
\* ------------------------------------------------------------------------
\* what a pass has reached: where configParse stands, the Config, the staging
\* table and address 0
P5State(next, e, cfg, table, mem) == [pc |-> next, err |-> e, cfg |-> cfg, table |-> table, mem |-> mem]

P5Throw(st, e) == [st EXCEPT !.pc = "throw", !.err = e]

P5Segv(st) == [st EXCEPT !.pc = "segv"]

P5Load(st, ptr) ==
    IF ptr.null THEN st.mem.rec ELSE st.table[ptr.id].indexList[ptr.idx + 1]

P5Wild(st, ptr) == ptr.null /\ st.mem.wild

\* lines 1050-1074: the value of the depend option, as text; has is FALSE for NULL
P5DependValue(cfg, dependOptionId) ==
    LET dependValue == cfgOption(cfg, dependOptionId)
    IN  IF dependValue.t = "null" THEN [has |-> FALSE, s |-> EMPTY_STR]
        ELSE IF cfgDefOptionType(dependOptionId) = "Boolean"
            THEN [has |-> TRUE, s |-> IF dependValue.b THEN OPTION_VALUE_1 ELSE OPTION_VALUE_0]
        ELSE [has |-> TRUE, s |-> dependValue.s]

\* lines 1087-1112: the name of the depend option and the values listed in the error
P5DependNo(optionId) ==
    /\ cfgDefOptionType(cfgDefOptionDependOption(command, optionId)) = "Boolean"
    /\ \E listIdx \in 0..(cfgDefOptionDependValueTotal(command, optionId) - 1) :
            cfgDefOptionDependValue(command, optionId, listIdx) = OPTION_VALUE_0

P5DependValueList(optionId) ==
    IF cfgDefOptionType(cfgDefOptionDependOption(command, optionId)) = "Boolean"
        THEN <<>>
        ELSE OptionDef[optionId].depend.values

\* lines 1045-1124: dependResolved, or the error of an option set on the command line
P5Depend(cfg, optionId, optionSet, source) ==
    IF ~cfgDefOptionDepend(command, optionId)
        THEN [resolved |-> TRUE, err |-> NoError]
    ELSE LET dependOptionId == cfgDefOptionDependOption(command, optionId)
             dependValue == P5DependValue(cfg.option, dependOptionId)
         IN  IF ~dependValue.has
                 THEN [resolved |-> FALSE,
                       err |-> IF optionSet /\ source = cfgSourceParam
                                   THEN DependError(optionId, dependOptionId, FALSE, <<>>)
                                   ELSE NoError]
             ELSE IF cfgDefOptionDependValueTotal(command, optionId) > 0
                 THEN LET resolved == cfgDefOptionDependValueValid(command, optionId, dependValue.s)
                      IN  [resolved |-> resolved,
                           err |-> IF ~resolved /\ optionSet /\ source = cfgSourceParam
                                       THEN DependError(optionId, dependOptionId, P5DependNo(optionId),
                                                        P5DependValueList(optionId))
                                       ELSE NoError]
             ELSE [resolved |-> TRUE, err |-> NoError]

\* strstr(strZ(value), "//") != NULL
ContainsSlashSlash(value) ==
    \E i \in 1..(Len(value) - 1) : value[i] = "/" /\ value[i + 1] = "/"

\* lines 1211-1234: the checks of a path
P5PathError(optionId, value) ==
    IF Len(value) = 0
        THEN OptError("OptionInvalidValueError", "must be >= 1 character", optionId, 0)
    ELSE IF value[1] # "/"
        THEN OptError("OptionInvalidValueError", "must begin with /", optionId, 0)
    ELSE IF ContainsSlashSlash(value)
        THEN OptError("OptionInvalidValueError", "cannot contain //", optionId, 0)
    ELSE NoError

\* P5PathTrunc() had it no test of strSize(value) != 1 (line 1237)
P5PathTruncAll(value) ==
    IF Len(value) > 0 /\ value[Len(value)] = "/" THEN SubSeq(value, 1, Len(value) - 1) ELSE value

\* lines 1236-1238: strTrunc() of a trailing / unless the value is just /
P5PathTrunc(value) ==
    IF Len(value) > 1 /\ value[Len(value)] = "/" THEN SubSeq(value, 1, Len(value) - 1) ELSE value

\* cfgOptionSet() on the Config of a pass
P5Set(st, optionId, source, value) ==
    [st EXCEPT !.cfg.option = cfgOptionSet(st.cfg.option, optionId, source, value)]

\* lines 1134-1250: the option is set
P5OptionSet(st, optionId, ptr, rec) ==
    IF cfgDefOptionType(optionId) = "Boolean"
        THEN P5Set(st, optionId, rec.source, VarBool(~rec.negate))
    ELSE IF P5Wild(st, ptr) \/ rec.valueList = <<>>
        THEN P5Segv(st)
    ELSE IF cfgDefOptionType(optionId) = "List"
        THEN P5Set(st, optionId, rec.source, VarLst(rec.valueList))
    ELSE LET value == rec.valueList[1]
         IN  IF cfgDefOptionType(optionId) = "Path"
                 THEN IF P5PathError(optionId, value) # NoError
                         THEN P5Throw(st, P5PathError(optionId, value))
                         ELSE LET trunc == P5PathTrunc(value)
                                  after == [rec EXCEPT !.valueList[1] = trunc]
                                  stored == [st EXCEPT
                                                !.table = IF ptr.null THEN @ ELSE
                                                    [@ EXCEPT ![ptr.id].indexList[ptr.idx + 1] = after],
                                                !.mem = IF ptr.null THEN [@ EXCEPT !.rec = after] ELSE @]
                              IN  IF trunc = value THEN P5Set(st, optionId, rec.source, VarStr(value))
                                  ELSE IF ptr.null /\ st.mem.mode # "rw" THEN P5Segv(st)
                                  ELSE P5Set(stored, optionId, rec.source, VarStr(trunc))
                 ELSE P5Set(st, optionId, rec.source, VarStr(value))

\* lines 1253-1274: not set and not negated
P5OptionDefault(st, optionId) ==
    IF cfgDefOptionDefault(command, optionId).has
        THEN P5Set(st, optionId, cfgSourceDefault, VarStr(cfgDefOptionDefault(command, optionId).s))
    ELSE IF cfgDefOptionRequired(command, optionId) /\ ~commandHelp
        THEN P5Throw(st, [OptCmdError("OptionRequiredError", "command requires option", optionId, command)
                            EXCEPT !.no = cfgDefOptionSection(optionId) = "Stanza"])
    ELSE st

\* lines 1026-1275: the body of the loop over the indexes of one option
P5Index(st, optionId, optionIdx) ==
    LET optionGroup == cfgOptionGroup(optionId)
        ptr == IF optionGroup
                   THEN IF st.cfg.optionGroup[cfgOptionGroupId(optionId)].index[optionIdx + 1]
                                < st.table[optionId].indexListTotal
                            THEN AddrOf(optionId,
                                        st.cfg.optionGroup[cfgOptionGroupId(optionId)].index[optionIdx + 1])
                            ELSE NULL
                   ELSE IF 0 < st.table[optionId].indexListTotal THEN AddrOf(optionId, 0) ELSE NULL
    IN  IF ptr.null /\ st.mem.mode = "unmapped" THEN P5Segv(st)
        ELSE LET rec == P5Load(st, ptr)
                 optionSet == rec.found /\ (cfgDefOptionType(optionId) = "Boolean" \/ ~rec.negate)
                                /\ ~rec.reset
                 flagged == [st EXCEPT !.cfg.option[optionId].index[optionIdx + 1] =
                                            [negate |-> rec.negate, reset |-> rec.reset]]
                 depend == P5Depend(flagged.cfg, optionId, optionSet, rec.source)
             IN  IF depend.err # NoError THEN P5Throw(flagged, depend.err)
                 ELSE IF ~depend.resolved THEN flagged
                 ELSE IF optionSet THEN P5OptionSet(flagged, optionId, ptr, rec)
                 ELSE IF rec.negate THEN P5Set(flagged, optionId, rec.source, VarNull)
                 ELSE P5OptionDefault(flagged, optionId)

RECURSIVE P5Indexes(_, _, _, _)
P5Indexes(st, optionId, optionIdx, optionIndexTotal) ==
    IF optionIdx >= optionIndexTotal \/ st.pc # "P5" THEN st
    ELSE CHOOSE end \in {P5Indexes(after, optionId, optionIdx + 1, optionIndexTotal) :
                            after \in {P5Index(st, optionId, optionIdx)}} : TRUE

\* lines 1006-1024: one option of optionResolveOrder
P5Pass(st, optionId) ==
    LET optionIndexTotal == IF cfgOptionGroup(optionId)
                                THEN st.cfg.optionGroup[cfgOptionGroupId(optionId)].indexTotal
                                ELSE 1
    IN  IF ~st.cfg.option[optionId].valid THEN st
        ELSE P5Indexes(st, optionId, 0, optionIndexTotal)

\* line 1004: the loop over optionResolveOrder; idx is where it stands or stopped
RECURSIVE P5Loop(_, _)
P5Loop(st, idx) ==
    IF idx >= CFG_OPTION_TOTAL THEN [st |-> [st EXCEPT !.pc = "return"], idx |-> idx]
    ELSE CHOOSE end \in {IF after.pc # "P5" THEN [st |-> after, idx |-> idx] ELSE P5Loop(after, idx + 1) :
                            after \in {P5Pass(st, optionResolveOrder[idx + 1])}} : TRUE

P5 ==
    /\ pc = "P5"
    /\ \E end \in {P5Loop(P5State("P5", NoError, config, parseOptionList, nullMem), 0)} :
           /\ config' = end.st.cfg
           /\ optionOrderIdx' = end.idx
           /\ Apply([pc |-> end.st.pc, err |-> end.st.err, table |-> end.st.table, mem |-> end.st.mem])
    /\ UNCHANGED p1Vars
    /\ UNCHANGED <<argLog, envLog, file, fileLog>>
    /\ UNCHANGED sizeVars
    /\ UNCHANGED logWarn

\* ------------------------------------------------------------------------
\* configParse() from its call to its end
\* ------------------------------------------------------------------------
\* the bytes a build can have at address 0, read as a ParseOptionValue: any flags
Garbage ==
    {ParseOptionValue(found, negate, reset, cfgSourceParam, <<>>) :
        found \in BOOLEAN, negate \in BOOLEAN, reset \in BOOLEAN}

NullMems ==
    {[mode |-> "unmapped", rec |-> ParseOptionValue(FALSE, FALSE, FALSE, cfgSourceDefault, <<>>),
      wild |-> TRUE]}
        \cup {[mode |-> "rw", rec |-> rec, wild |-> TRUE] : rec \in Garbage}

Init ==
    /\ pc = "P1"
    /\ err = NoError
    /\ nullMem \in NullMems
    /\ parseOptionList = [optionId \in OptionIds |-> ParseOptionZero]
    /\ command = cfgCmdNone
    /\ commandRole = cfgCmdRoleDefault
    /\ commandHelp = FALSE
    /\ commandSet = FALSE
    /\ argFound = FALSE
    /\ commandParamList = <<>>
    /\ paramList = <<>>
    /\ argLog = <<>>
    /\ envLog = <<>>
    /\ file = FileInit
    /\ fileLog = <<>>
    /\ config = ConfigInit
    /\ optionOrderIdx = 0
    /\ valueStaged = EMPTY_STR
    /\ valueStr = EMPTY_STR
    /\ valueDbl = <<0>>
    /\ logWarn = <<>>

Next ==
    \/ P1Arg
    \/ P1Bad
    \/ P1Option
    \/ P1End
    \/ P2Env
    \/ P2End
    \/ P3Load
    \/ P3Key
    \/ P3SectionEnd
    \/ P4
    \/ P5

Spec == Init /\ [][Next]_vars

\* ------------------------------------------------------------------------
\* cfgFileLoad() on its own: called with an optionList whose records exist,
\* as the lookup is documented to create them, on a storage of its own
\* ------------------------------------------------------------------------
PathInclude == <<"/", "i">>

FileConf == [path |-> PathConf, text |-> <<"c">>]

\* a main file of no bytes
FileRebased == [path |-> PathA \o <<"/", "pgbackrest.conf">>, text |-> <<>>]

\* the second file is empty, the third is gone when it is read (.ignoreMissing)
DirGiven ==
    [path |-> PathInclude,
     list |-> <<[name |-> 4, null |-> FALSE, text |-> <<"g4">>],
                [name |-> 2, null |-> FALSE, text |-> <<>>],
                [name |-> 3, null |-> TRUE, text |-> <<>>],
                [name |-> 1, null |-> FALSE, text |-> <<"g1">>]>>]

DirRebased ==
    [path |-> PathA \o <<"/", PGBACKREST_CONFIG_INCLUDE_PATH>>,
     list |-> <<[name |-> 1, null |-> FALSE, text |-> <<"r1">>]>>]

\* the storages cfgFileLoad() is run on: any of the four files, and no directory
\* or all three
FileStorages ==
    {Storage(files, dirs) : files \in SUBSET {FileMain, FileOrig, FileConf, FileRebased},
                            dirs \in {{}, {DirInclude, DirGiven, DirRebased}}}

\* a ParseOption with no record, or with the one record of index 0
ParseOptionOf(recs) == [indexListAlloc |-> Len(recs), indexListTotal |-> Len(recs), indexList |-> recs]

\* what P1 and P2 leave for --config, --no-config and PGBACKREST_CONFIG
FileConfigRecs ==
    {<<>>,
     <<ParseOptionValue(TRUE, FALSE, FALSE, cfgSourceParam, <<PathConf>>)>>,
     <<ParseOptionValue(TRUE, FALSE, FALSE, cfgSourceParam, <<OptionDef["config"].default.s>>)>>,
     <<ParseOptionValue(TRUE, TRUE, FALSE, cfgSourceParam, <<>>)>>,
     <<ParseOptionValue(TRUE, FALSE, FALSE, cfgSourceConfig, <<PathConf>>)>>}

FileConfigPathRecs == {<<>>, <<ParseOptionValue(TRUE, FALSE, FALSE, cfgSourceParam, <<PathA>>)>>}

FileConfigIncludePathRecs ==
    {<<>>, <<ParseOptionValue(TRUE, FALSE, FALSE, cfgSourceParam, <<PathInclude>>)>>}

FileTables ==
    {[optionId \in OptionIds |->
        IF optionId = cfgOptConfig THEN ParseOptionOf(c)
        ELSE IF optionId = cfgOptConfigPath THEN ParseOptionOf(p)
        ELSE IF optionId = cfgOptConfigIncludePath THEN ParseOptionOf(i)
        ELSE ParseOptionZero] :
            c \in FileConfigRecs, p \in FileConfigPathRecs, i \in FileConfigIncludePathRecs}

InitFile ==
    /\ pc = "cfgFileLoad"
    /\ err = NoError
    /\ nullMem \in {m \in NullMems : m.mode = "unmapped"}
    /\ parseOptionList \in FileTables
    /\ command = cfgCmdBackup
    /\ commandRole = cfgCmdRoleDefault
    /\ commandHelp = FALSE
    /\ commandSet = TRUE
    /\ argFound = TRUE
    /\ commandParamList = <<>>
    /\ paramList = <<>>
    /\ argLog = <<>>
    /\ envLog = <<>>
    /\ file = FileInit
    /\ fileLog = <<>>
    /\ config = ConfigInit
    /\ optionOrderIdx = 0
    /\ valueStaged = EMPTY_STR
    /\ valueStr = EMPTY_STR
    /\ valueDbl = <<0>>
    /\ logWarn = <<>>

\* the call of line 770, on any of FileStorages
FileLoad ==
    /\ pc = "cfgFileLoad"
    /\ \E storage \in FileStorages :
        LET loaded == cfgFileLoad(parseOptionList, cfgDefOptionDefault(command, cfgOptConfig).s,
                                  cfgDefOptionDefault(command, cfgOptConfigIncludePath).s,
                                  PGBACKREST_CONFIG_ORIG_PATH_FILE, storage)
        IN  /\ Apply(IF loaded.err # NoError THEN Throw(loaded.err)
                                             ELSE Continue("return", parseOptionList, nullMem))
            /\ file' = [file EXCEPT !.loaded = (loaded.err = NoError), !.configString = loaded.result,
                                    !.read = loaded.read, !.storage = storage,
                                    !.main = loaded.main, !.list = loaded.list]
    /\ UNCHANGED p1Vars
    /\ UNCHANGED <<argLog, envLog, fileLog, config, optionOrderIdx>>
    /\ UNCHANGED sizeVars
    /\ UNCHANGED logWarn

NextFile == FileLoad

SpecFile == InitFile /\ [][NextFile]_vars

\* ------------------------------------------------------------------------
\* convertToByte() on its own. A text is a sequence of characters; a double
\* is the whole number it holds, as the sequence of its decimal digits, most
\* significant first: the numbers met here are a whole number below 2^53 times
\* a power of two, which a double holds exactly.
\* ------------------------------------------------------------------------
SizeDigits == <<"0", "1", "2", "3", "4", "5", "6", "7", "8", "9">>

\* the codes of the characters, for the comparisons with '9'
ChrCode ==
    ("0" :> 48) @@ ("1" :> 49) @@ ("2" :> 50) @@ ("3" :> 51) @@ ("4" :> 52) @@ ("5" :> 53)
        @@ ("6" :> 54) @@ ("7" :> 55) @@ ("8" :> 56) @@ ("9" :> 57)
        @@ ("B" :> 66) @@ ("G" :> 71) @@ ("K" :> 75) @@ ("M" :> 77) @@ ("P" :> 80) @@ ("T" :> 84)
        @@ ("b" :> 98) @@ ("g" :> 103) @@ ("k" :> 107) @@ ("m" :> 109) @@ ("p" :> 112)
        @@ ("t" :> 116) @@ ("x" :> 120)

\* strLower() on the letters a size is written with
strLower(text) ==
    [i \in 1..Len(text) |->
        IF text[i] = "B" THEN "b"
        ELSE IF text[i] = "K" THEN "k"
        ELSE IF text[i] = "M" THEN "m"
        ELSE IF text[i] = "G" THEN "g"
        ELSE IF text[i] = "T" THEN "t"
        ELSE IF text[i] = "P" THEN "p"
        ELSE text[i]]

\* the alternatives of the group of the regular expression of line 206
SizeQualifiers ==
    {<<"k", "b">>, <<"k">>, <<"m", "b">>, <<"m">>, <<"g", "b">>, <<"g">>, <<"t", "b">>, <<"t">>,
     <<"p", "b">>, <<"p">>, <<"b">>}

\* (kb|k|mb|m|gb|g|tb|t|pb|p|b)*$
RECURSIVE MatchQualifiers(_)
MatchQualifiers(text) ==
    \/ text = <<>>
    \/ \E q \in SizeQualifiers :
            /\ BeginsWith(text, q)
            /\ MatchQualifiers(SubSeq(text, Len(q) + 1, Len(text)))

IsDigit(c) == \E i \in 1..Len(SizeDigits) : SizeDigits[i] = c

\* how many digits the text begins with
RECURSIVE LeadingDigits(_)
LeadingDigits(text) ==
    IF text = <<>> THEN 0
    ELSE IF IsDigit(text[1]) THEN 1 + LeadingDigits(Tail(text))
    ELSE 0

\* regExpMatchOne("^[0-9]+(kb|k|mb|m|gb|g|tb|t|pb|p|b)*$", text)
regExpMatchOne(text) ==
    /\ LeadingDigits(text) >= 1
    /\ MatchQualifiers(SubSeq(text, LeadingDigits(text) + 1, Len(text)))

\* a number without the zeros it begins with
RECURSIVE NumCanon(_)
NumCanon(n) == IF Len(n) > 1 /\ n[1] = 0 THEN NumCanon(Tail(n)) ELSE n

\* a + b: from[i, j, carry] is the sum of the digits of a up to i and of b up
\* to j, and the carry
NumAdd(a, b) ==
    LET from[i \in 0..Len(a), j \in 0..Len(b), carry \in 0..1] ==
            IF i = 0 /\ j = 0 THEN (IF carry = 0 THEN <<>> ELSE <<carry>>)
            ELSE LET sum == (IF i > 0 THEN a[i] ELSE 0) + (IF j > 0 THEN b[j] ELSE 0) + carry
                 IN  Append(from[IF i > 0 THEN i - 1 ELSE 0, IF j > 0 THEN j - 1 ELSE 0, sum \div 10],
                            sum % 10)
    IN  NumCanon(from[Len(a), Len(b), 0])

\* a times the digit d: from[i, carry] is the product of the digits of a up to i,
\* and the carry
NumMulDigit(a, d) ==
    LET from[i \in 0..Len(a), carry \in 0..9] ==
            IF i = 0 THEN (IF carry = 0 THEN <<>> ELSE <<carry>>)
            ELSE Append(from[i - 1, (a[i] * d + carry) \div 10], (a[i] * d + carry) % 10)
    IN  from[Len(a), 0]

\* a * b of two doubles that hold whole numbers: upTo[k] is b times the first k
\* digits of a
NumMul(a, b) ==
    LET upTo[k \in 0..Len(a)] ==
            IF k = 0 THEN <<0>>
            ELSE NumAdd(NumCanon(Append(upTo[k - 1], 0)), NumCanon(<<0>> \o NumMulDigit(b, a[k])))
    IN  upTo[Len(a)]

\* the int literal 1024
Num1024 == <<1, 0, 2, 4>>

\* the products of the cases of sizeQualifierToMultiplier(), as the source writes them
SizeMultiplierM == NumMul(Num1024, Num1024)

SizeMultiplierG == NumMul(Num1024, SizeMultiplierM)

SizeMultiplierT == NumMul(Num1024, SizeMultiplierG)

SizeMultiplierP == NumMul(Num1024, SizeMultiplierT)

\* sizeQualifierToMultiplier() had case 'g' one factor less (line 166)
sizeQualifierToMultiplierShort(qualifier) ==
    IF qualifier = "b" THEN [ok |-> TRUE, result |-> <<1>>]
    ELSE IF qualifier = "k" THEN [ok |-> TRUE, result |-> Num1024]
    ELSE IF qualifier \in {"m", "g"} THEN [ok |-> TRUE, result |-> SizeMultiplierM]
    ELSE IF qualifier = "t" THEN [ok |-> TRUE, result |-> SizeMultiplierT]
    ELSE IF qualifier = "p" THEN [ok |-> TRUE, result |-> SizeMultiplierP]
    ELSE [ok |-> FALSE, result |-> <<0>>]

\* sizeQualifierToMultiplier(); not ok is the AssertError of the default case
sizeQualifierToMultiplier(qualifier) ==
    IF qualifier = "b" THEN [ok |-> TRUE, result |-> <<1>>]
    ELSE IF qualifier = "k" THEN [ok |-> TRUE, result |-> Num1024]
    ELSE IF qualifier = "m" THEN [ok |-> TRUE, result |-> SizeMultiplierM]
    ELSE IF qualifier = "g" THEN [ok |-> TRUE, result |-> SizeMultiplierG]
    ELSE IF qualifier = "t" THEN [ok |-> TRUE, result |-> SizeMultiplierT]
    ELSE IF qualifier = "p" THEN [ok |-> TRUE, result |-> SizeMultiplierP]
    ELSE [ok |-> FALSE, result |-> <<0>>]

\* varDblForce(VARSTR(text)): the number a text of digits holds; any other text
\* of the ones left after the regular expression is not a number
varDblForce(text) ==
    IF text # <<>> /\ \A i \in 1..Len(text) : IsDigit(text[i])
        THEN [ok |-> TRUE,
              dbl |-> NumCanon([i \in 1..Len(text) |->
                                    (CHOOSE d \in 1..Len(SizeDigits) : SizeDigits[d] = text[i]) - 1])]
        ELSE [ok |-> FALSE, dbl |-> <<0>>]

\* varStrForce(VARDBL(dbl)): the digits of a whole number
varStrForce(dbl) == [i \in 1..Len(dbl) |-> SizeDigits[dbl[i] + 1]]

\* SizeChrPos() had it no test of the character before a last b (line 219)
SizeChrPosBeforeB(strArray) ==
    LET size == Len(strArray)
    IN  IF strArray[size] = "b" THEN size - 2
        ELSE IF ChrCode[strArray[size]] > ChrCode["9"] THEN size - 1
        ELSE -1

\* chrPos of lines 214-227, -1 when the text has no letter
SizeChrPos(strArray) ==
    LET size == Len(strArray)
    IN  IF strArray[size] = "b"
            THEN IF ChrCode[strArray[size - 1]] <= ChrCode["9"] THEN size - 1 ELSE size - 2
        ELSE IF ChrCode[strArray[size]] > ChrCode["9"] THEN size - 1
        ELSE -1

\* convertToByte(&value, &valueDbl): [err, value, valueDbl] after the call
convertToByte(valueIn, valueDblIn) ==
    LET result == strLower(valueIn)
        failed == [err |-> Error("FormatError", "is not valid"), value |-> valueIn, valueDbl |-> valueDblIn]
    IN  IF ~regExpMatchOne(result) THEN failed
        ELSE LET chrPos == SizeChrPos(result)
                 multiplier == IF chrPos # -1 THEN sizeQualifierToMultiplier(result[chrPos + 1])
                                              ELSE [ok |-> TRUE, result |-> <<1>>]
                 truncated == IF chrPos # -1 THEN SubSeq(result, 1, chrPos) ELSE result
                 parsed == varDblForce(truncated)
                 newDbl == NumMul(parsed.dbl, multiplier.result)
             IN  IF ~multiplier.ok
                     THEN [failed EXCEPT !.err = Error("AssertError", "is not a valid size qualifier")]
                 ELSE IF ~parsed.ok
                     THEN [failed EXCEPT !.err = Error("FormatError", "unable to convert string to double")]
                 ELSE [err |-> NoError, value |-> varStrForce(newDbl), valueDbl |-> newDbl]

\* the longest number and the longest run of letters of the values tried
MaxDigits == 2

MaxQualifier == 2

SizeNumberChars == {"0", "2", "9"}

SizeLetterChars == {"b", "k", "m", "g", "t", "p", "B", "K", "M", "G", "T", "P", "x", "2"}

TextsUpTo(chars, n) == UNION {[1..k -> chars] : k \in 0..n}

\* the values convertToByte() is given
SizeInputs ==
    {number \o letters : number \in TextsUpTo(SizeNumberChars, MaxDigits),
                         letters \in TextsUpTo(SizeLetterChars, MaxQualifier)}

InitSize ==
    /\ pc = "convertToByte"
    /\ err = NoError
    /\ nullMem \in {m \in NullMems : m.mode = "unmapped"}
    /\ parseOptionList = [optionId \in OptionIds |-> ParseOptionZero]
    /\ command = cfgCmdBackup
    /\ commandRole = cfgCmdRoleDefault
    /\ commandHelp = FALSE
    /\ commandSet = TRUE
    /\ argFound = TRUE
    /\ commandParamList = <<>>
    /\ paramList = <<>>
    /\ argLog = <<>>
    /\ envLog = <<>>
    /\ file = FileInit
    /\ fileLog = <<>>
    /\ config = ConfigInit
    /\ optionOrderIdx = 0
    /\ valueStaged \in SizeInputs
    /\ valueStr = valueStaged
    /\ valueDbl = <<0>>
    /\ logWarn = <<>>

\* the call of line 1186 and how it ends
ConvertToByte ==
    /\ pc = "convertToByte"
    /\ LET after == convertToByte(valueStr, valueDbl)
       IN  /\ pc' = IF after.err = NoError THEN "return" ELSE "throw"
           /\ err' = after.err
           /\ valueStr' = after.value
           /\ valueDbl' = after.valueDbl
    /\ UNCHANGED <<nullMem, parseOptionList, valueStaged>>
    /\ UNCHANGED p1Vars
    /\ UNCHANGED <<argLog, envLog, file, fileLog, config, optionOrderIdx>>
    /\ UNCHANGED logWarn

NextSize == ConvertToByte

SpecSize == InitSize /\ [][NextSize]_vars

\* ------------------------------------------------------------------------
\* Phases 4 and 5 on their own: on a staging table whose records exist, as
\* the lookup is documented to create them, for each command of the table
\* ------------------------------------------------------------------------
NotFound == ParseOptionValue(FALSE, FALSE, FALSE, cfgSourceDefault, <<>>)

\* a record P1 (Param) or P2 and P3 (Config) have stored with a value
FoundValue(source, value) == ParseOptionValue(TRUE, FALSE, FALSE, source, <<value>>)

\* a record stored without a value: a Boolean, or a negated option
FoundFlag(source, negate) == ParseOptionValue(TRUE, negate, FALSE, source, <<>>)

\* the table of a command: the records given, one record not found for every
\* other option that Phase 5 looks up
ResolveTable(commandId, given) ==
    [optionId \in OptionIds |->
        IF optionId \in DOMAIN given THEN ParseOptionOf(given[optionId])
        ELSE IF cfgDefOptionValid(commandId, optionId) /\ ~cfgOptionGroup(optionId)
            THEN ParseOptionOf(<<NotFound>>)
        ELSE ParseOptionZero]

\* pg1-path and pg2-path: good paths, a path with a trailing /, the path /, and
\* the three kinds of bad path
ResolvePgPath1 ==
    {NotFound, FoundValue(cfgSourceParam, PathA), FoundValue(cfgSourceConfig, <<"/", "b", "/">>),
     FoundValue(cfgSourceParam, <<"a">>), FoundValue(cfgSourceParam, <<"/", "a", "/", "/", "b">>),
     FoundValue(cfgSourceParam, EMPTY_STR), FoundValue(cfgSourceConfig, <<"/">>)}

ResolvePgPath2 ==
    {<<>>, <<FoundValue(cfgSourceParam, <<"/", "b">>)>>, <<FoundValue(cfgSourceConfig, <<"/", "c", "/">>)>>}

ResolveTablesBackup ==
    {ResolveTable(cfgCmdBackup,
                  ("stanza" :> <<FoundValue(cfgSourceParam, StrS)>>)
                      @@ ("pg-path" :> <<p1>> \o p2)
                      @@ ("pg-port" :> [k \in 1..(1 + Len(p2)) |-> NotFound])
                      @@ ("compress" :> <<c>>)) :
        p1 \in ResolvePgPath1, p2 \in ResolvePgPath2,
        c \in {NotFound, FoundFlag(cfgSourceParam, TRUE), FoundFlag(cfgSourceConfig, FALSE)}}

ResolveTablesArchivePush ==
    {ResolveTable(cfgCmdArchivePush,
                  ("stanza" :> <<FoundValue(cfgSourceConfig, StrS)>>)
                      @@ ("pg-path" :> <<>>) @@ ("pg-port" :> <<>>)
                      @@ ("archive-async" :> <<a>>) @@ ("spool-path" :> <<sp>>)) :
        a \in {NotFound, FoundFlag(cfgSourceParam, FALSE), FoundFlag(cfgSourceParam, TRUE),
                FoundFlag(cfgSourceConfig, FALSE)},
        sp \in {NotFound, FoundValue(cfgSourceParam, PathA), FoundValue(cfgSourceConfig, PathA),
                 FoundValue(cfgSourceParam, <<"/", "s", "/">>)}}

ResolveTablesStanzaCreate ==
    {ResolveTable(cfgCmdStanzaCreate, ("online" :> <<o>>) @@ ("force" :> <<f>>)) :
        o \in {NotFound, FoundFlag(cfgSourceParam, FALSE), FoundFlag(cfgSourceParam, TRUE),
                FoundFlag(cfgSourceConfig, TRUE)},
        f \in {NotFound, FoundFlag(cfgSourceParam, FALSE), FoundFlag(cfgSourceParam, TRUE),
                FoundFlag(cfgSourceConfig, FALSE)}}

ResolveTablesRestore ==
    {ResolveTable(cfgCmdRestore,
                  ("type" :> <<t>>) @@ ("target" :> <<g>>) @@ ("repo-type" :> <<r>>)
                      @@ ("repo-s3-bucket" :> <<b>>) @@ ("repo-host" :> <<h>>)
                      @@ ("repo-host-user" :> <<u>>)) :
        t \in {NotFound, FoundValue(cfgSourceParam, <<"time">>), FoundValue(cfgSourceParam, <<"immediate">>)},
        g \in {NotFound, FoundValue(cfgSourceParam, StrA), FoundValue(cfgSourceConfig, StrA)},
        r \in {NotFound, FoundValue(cfgSourceParam, <<"s3">>), FoundValue(cfgSourceConfig, <<"cifs">>)},
        b \in {NotFound, FoundValue(cfgSourceParam, StrB), FoundValue(cfgSourceConfig, StrB)},
        h \in {NotFound, FoundValue(cfgSourceConfig, <<"h">>), FoundFlag(cfgSourceParam, TRUE)},
        u \in {NotFound, FoundValue(cfgSourceParam, <<"u">>)}}

ResolveTables(commandId) ==
    IF commandId = cfgCmdBackup THEN ResolveTablesBackup
    ELSE IF commandId = cfgCmdArchivePush THEN ResolveTablesArchivePush
    ELSE IF commandId = cfgCmdStanzaCreate THEN ResolveTablesStanzaCreate
    ELSE ResolveTablesRestore

\* line 930: Phases 1 to 3 are over, the command is set
InitResolve ==
    /\ pc = "P4"
    /\ err = NoError
    /\ nullMem \in {m \in NullMems : m.mode = "unmapped"}
    /\ command \in {cfgCmdBackup, cfgCmdArchivePush, cfgCmdStanzaCreate, cfgCmdRestore}
    /\ parseOptionList \in ResolveTables(command)
    /\ commandRole = cfgCmdRoleDefault
    /\ commandHelp = FALSE
    /\ commandSet = TRUE
    /\ argFound = TRUE
    /\ commandParamList = <<>>
    /\ paramList = <<>>
    /\ argLog = <<>>
    /\ envLog = <<>>
    /\ file = FileInit
    /\ fileLog = <<>>
    /\ config = ConfigInit
    /\ optionOrderIdx = 0
    /\ valueStaged = EMPTY_STR
    /\ valueStr = EMPTY_STR
    /\ valueDbl = <<0>>
    /\ logWarn = <<>>

NextResolve == P4 \/ P5

SpecResolve == InitResolve /\ [][NextResolve]_vars

\* ------------------------------------------------------------------------
\* Phase 3 on its own: on a staging table whose records exist, the stanza
\* given on the command line, for the command backup
\* ------------------------------------------------------------------------
StanzaGlobal1 == <<"g", "l", "o", "b", "a", "l", "1">>

SectionTables ==
    {ResolveTable(cfgCmdBackup,
                  ("stanza" :> <<FoundValue(cfgSourceParam, stanza)>>)
                      @@ ("pg-path" :> <<p1, NotFound>>)
                      @@ ("pg-port" :> <<NotFound, NotFound>>)) :
        stanza \in {StrS, StanzaGlobal1},
        p1 \in {NotFound, FoundValue(cfgSourceParam, <<"/", "b">>)}}

\* line 766: Phases 1 and 2 are over
InitSection ==
    /\ pc = "P3"
    /\ err = NoError
    /\ nullMem \in {m \in NullMems : m.mode = "unmapped"}
    /\ command = cfgCmdBackup
    /\ parseOptionList \in SectionTables
    /\ commandRole = cfgCmdRoleDefault
    /\ commandHelp = FALSE
    /\ commandSet = TRUE
    /\ argFound = TRUE
    /\ commandParamList = <<>>
    /\ paramList = <<>>
    /\ argLog = <<>>
    /\ envLog = <<>>
    /\ file = FileInit
    /\ fileLog = <<>>
    /\ config = ConfigInit
    /\ optionOrderIdx = 0
    /\ valueStaged = EMPTY_STR
    /\ valueStr = EMPTY_STR
    /\ valueDbl = <<0>>
    /\ logWarn = <<>>

NextSection == P3Load \/ P3Key \/ P3SectionEnd

SpecSection == InitSection /\ [][NextSection]_vars

\* ------------------------------------------------------------------------
\* Properties. The staging record of (option id, index) is what the lookup
\* yields for it; the inputs are what the logs hold.
\* ------------------------------------------------------------------------
OptionIdxs == 0..(CFG_OPTION_INDEX_MAX - 1)

HasRecord(optionId, optionIdx) == CanRead(parseOptionIdxValue(optionId, optionIdx))

Record(optionId, optionIdx) == Load(parseOptionIdxValue(optionId, optionIdx))

\* the phase a SIGSEGV ended, "" while there is none
SegvPhase ==
    IF pc # "segv" THEN ""
    ELSE IF config # ConfigInit THEN "P5"
    ELSE IF file.loaded THEN "P3"
    ELSE IF envLog # <<>> THEN "P2"
    ELSE "P1"

\* argv, environ and the file name the option
ArgNames(optionId) == \E i \in 1..Len(argLog) : argLog[i].kind = "opt" /\ argLog[i].id = optionId

EnvNames(optionId) == \E i \in 1..Len(envLog) : envLog[i].kind = "opt" /\ envLog[i].id = optionId

FileNames(optionId) ==
    \E i \in 1..Len(fileLog) : fileLog[i].key.kind = "opt" /\ fileLog[i].key.id = optionId

Unnamed(optionId) == ~ArgNames(optionId) /\ ~EnvNames(optionId) /\ ~FileNames(optionId)

\* argLog[j] is an option that may be given on the command line
IsOption(j) == argLog[j].kind = "opt" /\ ~cfgDefOptionSecure(argLog[j].id)

SamePlace(i, j) ==
    argLog[i].kind = "opt" /\ argLog[i].id = argLog[j].id /\ argLog[i].idx = argLog[j].idx

FirstOccurrence(j) == IsOption(j) /\ \A i \in 1..(j - 1) : ~SamePlace(i, j)

SecondOccurrence(i, j) ==
    /\ i < j
    /\ FirstOccurrence(i)
    /\ SamePlace(i, j)
    /\ \A k \in (i + 1)..(j - 1) : ~SamePlace(i, k)

FormOf(tok) == IF tok.negate THEN "negate" ELSE IF tok.reset THEN "reset" ELSE "plain"

\* Phase 1 has just read argLog[j] and has not gone on: it crashed or refused it
StoppedAt(j) ==
    /\ j = Len(argLog)
    /\ envLog = <<>>
    /\ ~file.loaded
    /\ config = ConfigInit
    /\ pc = "segv" \/ (pc = "throw" /\ err.type = "OptionInvalidError")

\* a step of P2 or P3 leaves every found record as it is
C1Kept ==
    pc \in {"P2", "P3"} =>
        \A optionId \in OptionIds, optionIdx \in OptionIdxs :
            (HasRecord(optionId, optionIdx) /\ Record(optionId, optionIdx).found) =>
                /\ HasRecord(optionId, optionIdx)'
                /\ Record(optionId, optionIdx)' = Record(optionId, optionIdx)

C2Accepted(i) ==
    LET key == fileLog[i].key
        section == file.sectionList[fileLog[i].sectionIdx + 1]
    IN  /\ key.kind = "opt"
        /\ cfgDefOptionSection(key.id) # "CommandLine"
        /\ cfgDefOptionValid(command, key.id)
        /\ ~(cfgDefOptionSection(key.id) = "Stanza" /\ BeginsWith(section, CFGDEF_SECTION_GLOBAL))
        /\ \A j \in 1..(i - 1) :
                fileLog[j].sectionIdx = fileLog[i].sectionIdx =>
                    ~(fileLog[j].key.kind = "opt" /\ fileLog[j].key.id = key.id)
        /\ IF key.isList THEN cfgDefOptionMulti(key.id)
           ELSE /\ key.value[1] # EMPTY_STR
                /\ cfgDefOptionType(key.id) = "Boolean" => key.value[1] \in {StrY, StrN}

C2Stored(key) ==
    /\ HasRecord(key.id, key.idx)
    /\ Record(key.id, key.idx).found
    /\ Record(key.id, key.idx).source = cfgSourceConfig
    /\ IF cfgDefOptionType(key.id) = "Boolean"
           THEN Record(key.id, key.idx).negate = (key.value[1] = StrN)
           ELSE Record(key.id, key.idx).valueList = (IF key.isList THEN key.value ELSE <<key.value[1]>>)

\* C2: of the keys of the file that name an option neither argv nor environ
\* set, the one of the earliest section that is accepted is the value stored,
\* and stays so whatever later sections hold.
C2_FirstSectionWins ==
    \A i \in 1..Len(fileLog) :
        (/\ C2Accepted(i)
         /\ \A j \in 1..(i - 1) : ~(C2Accepted(j) /\ fileLog[j].key.id = fileLog[i].key.id
                                        /\ fileLog[j].key.idx = fileLog[i].key.idx)
         /\ ~ArgNames(fileLog[i].key.id)
         /\ ~EnvNames(fileLog[i].key.id))
            => C2Stored(fileLog[i].key)

RECURSIVE ArgsFrom(_, _)
ArgsFrom(optionId, i) ==
    IF i > Len(argLog) THEN <<>>
    ELSE (IF argLog[i].kind = "opt" /\ argLog[i].id = optionId THEN <<argLog[i].arg>> ELSE <<>>)
            \o ArgsFrom(optionId, i + 1)

\* C4: the first plain occurrence of an option is taken; a second plain
\* occurrence of a non-multi option is refused with 'cannot be set multiple
\* times', so its record never holds more than one value; the plain occurrences
\* of a multi option leave their arguments in the record in argv order.
C4_SetMultipleTimes ==
    /\ \A j \in 1..Len(argLog) :
            (FirstOccurrence(j) /\ FormOf(argLog[j]) = "plain") => ~StoppedAt(j)
    /\ \A i, j \in 1..Len(argLog) :
            (/\ SecondOccurrence(i, j)
             /\ FormOf(argLog[i]) = "plain" /\ FormOf(argLog[j]) = "plain"
             /\ ~cfgDefOptionMulti(argLog[j].id))
                => /\ j = Len(argLog)
                   /\ pc = "throw"
                   /\ err.type = "OptionInvalidError"
                   /\ err.msg = "cannot be set multiple times"
                   /\ err.opt = argLog[j].id
    /\ \A optionId \in OptionIds : \A i \in 1..Len(parseOptionList[optionId].indexList) :
            LET rec == parseOptionList[optionId].indexList[i]
            IN  (rec.found /\ rec.source = cfgSourceParam /\ ~cfgDefOptionMulti(optionId))
                    => Len(rec.valueList) <= 1
    /\ \A optionId \in OptionIds :
            (/\ cfgDefOptionMulti(optionId)
             /\ argLog # <<>>
             /\ \A i \in 1..Len(argLog) :
                    argLog[i].kind = "opt" /\ argLog[i].id = optionId /\ FormOf(argLog[i]) = "plain"
             /\ pc = "P1")
                => /\ HasRecord(optionId, 0)
                   /\ Record(optionId, 0).valueList = ArgsFrom(optionId, 1)

\* the message of two occurrences in different forms, or in the same form twice
C5Message(first, second) ==
    IF first = "negate" /\ second = "negate" THEN "is negated multiple times"
    ELSE IF first = "reset" /\ second = "reset" THEN "is reset multiple times"
    ELSE IF {first, second} = {"negate", "reset"} THEN "cannot be negated and reset"
    ELSE IF {first, second} = {"plain", "negate"} THEN "cannot be set and negated"
    ELSE "cannot be set and reset"

\* C5: of two occurrences of one (option id, index) that are not both plain,
\* the first is taken and the second is refused with the message of the pair,
\* whichever of the two forms comes first.
C5_FormConflicts ==
    /\ \A j \in 1..Len(argLog) : FirstOccurrence(j) => ~StoppedAt(j)
    /\ \A i, j \in 1..Len(argLog) :
            (SecondOccurrence(i, j) /\ {FormOf(argLog[i]), FormOf(argLog[j])} # {"plain"})
                => /\ j = Len(argLog)
                   /\ pc = "throw"
                   /\ err.type = "OptionInvalidError"
                   /\ err.msg = C5Message(FormOf(argLog[i]), FormOf(argLog[j]))
                   /\ err.opt = argLog[j].id

\* a secure option on the command line is refused where it stands
C6Refused ==
    \A i \in 1..Len(argLog) :
        (argLog[i].kind = "opt" /\ cfgDefOptionSecure(argLog[i].id)) =>
            /\ i = Len(argLog)
            /\ pc = "throw"
            /\ err.type = "OptionInvalidError"
            /\ err.msg = "is not allowed on the command-line"
            /\ err.opt = argLog[i].id
            /\ err.idx = argLog[i].idx

\* no staging record of a secure option has source Param
C6NoParam ==
    \A optionId \in OptionIds : \A i \in 1..Len(parseOptionList[optionId].indexList) :
        cfgDefOptionSecure(optionId) => parseOptionList[optionId].indexList[i].source # cfgSourceParam

\* the step that reads a secure option from argv writes nothing to the staging data
C6NothingWritten ==
    (/\ Len(argLog') = Len(argLog) + 1
     /\ argLog'[Len(argLog')].kind = "opt"
     /\ cfgDefOptionSecure(argLog'[Len(argLog')].id))
        => UNCHANGED <<parseOptionList, nullMem>>

PastP4 == pc \in {"P5", "return"} \/ SegvPhase = "P5" \/ (pc = "throw" /\ config # ConfigInit)

C8Default(optionId) ==
    IF cfgDefOptionType(optionId) = "Boolean"
        THEN VarBool(cfgDefOptionDefault(command, optionId).s # OPTION_VALUE_0)
        ELSE VarStr(cfgDefOptionDefault(command, optionId).s)

\* the dependency of the option, if it has one, is resolved
DependResolved(optionId) ==
    cfgDefOptionDepend(command, optionId) =>
        /\ P5DependValue(config.option, cfgDefOptionDependOption(command, optionId)).has
        /\ cfgDefOptionDependValueValid(
                command, optionId,
                P5DependValue(config.option, cfgDefOptionDependOption(command, optionId)).s)

\* the option has a default and no value from argv, environ or the file
C8Case(optionId) ==
    /\ cfgDefOptionValid(command, optionId)
    /\ cfgDefOptionDefault(command, optionId).has
    /\ DependResolved(optionId)
    /\ Unnamed(optionId)

\* C8: Phase 5 does not stop at an option valid for the command, in a group or
\* not, that has a default and that neither argv nor environ nor the file
\* named, and when configParse() returns from Phase 5 every such option holds
\* its default, with source Default.
C8_DefaultCommitted ==
    /\ SegvPhase = "P5" => ~C8Case(optionResolveOrder[optionOrderIdx + 1])
    /\ (pc = "return" /\ ContinueToOptions) =>
            \A optionId \in OptionIds :
                C8Case(optionId)
                    => /\ config.option[optionId].set
                       /\ config.option[optionId].source = cfgSourceDefault
                       /\ config.option[optionId].value = C8Default(optionId)

\* C9: Phase 5 ends with an error thrown, help not requested, when an option
\* valid for the command, in a group or not, is required, has no default, has
\* its dependency resolved and was named by neither argv nor environ nor the
\* file; and OptionRequiredError is not raised when help was requested.
C9_RequiredOption ==
    /\ (ContinueToOptions /\ ~commandHelp /\ (pc = "return" \/ SegvPhase = "P5")) =>
            \A optionId \in OptionIds :
                ~(/\ cfgDefOptionValid(command, optionId)
                  /\ cfgDefOptionRequired(command, optionId)
                  /\ ~cfgDefOptionDefault(command, optionId).has
                  /\ DependResolved(optionId)
                  /\ Unnamed(optionId))
    /\ (pc = "throw" /\ err.type = "OptionRequiredError") => ~commandHelp

\* C10: an option negated on the command line is taken, and when configParse()
\* returns from Phase 5 the option, valid for the command and its dependency
\* resolved, does not hold its default: it is null with source Param, or, a
\* Boolean, false with source Param and negate set.
C10_NegatedNoDefault ==
    \A j \in 1..Len(argLog) :
        (FirstOccurrence(j) /\ FormOf(argLog[j]) = "negate") =>
            /\ ~StoppedAt(j)
            /\ (/\ pc = "return"
                /\ ContinueToOptions
                /\ cfgDefOptionValid(command, argLog[j].id)
                /\ DependResolved(argLog[j].id))
                    => /\ config.option[argLog[j].id].set
                       /\ config.option[argLog[j].id].source = cfgSourceParam
                       /\ config.option[argLog[j].id].value =
                            (IF cfgDefOptionType(argLog[j].id) = "Boolean" THEN VarBool(FALSE) ELSE VarNull)
                       /\ cfgDefOptionType(argLog[j].id) = "Boolean"
                            => config.option[argLog[j].id].index[argLog[j].idx + 1].negate

\* C11: an option reset on the command line is taken, and when configParse()
\* returns from Phase 5 the option, valid for the command, with a default and
\* its dependency resolved, holds its default with source Default and has reset
\* set, whatever environ and the file hold for it.
C11_ResetDefault ==
    \A j \in 1..Len(argLog) :
        (FirstOccurrence(j) /\ FormOf(argLog[j]) = "reset") =>
            /\ ~StoppedAt(j)
            /\ (/\ pc = "return"
                /\ ContinueToOptions
                /\ cfgDefOptionValid(command, argLog[j].id)
                /\ cfgDefOptionDefault(command, argLog[j].id).has
                /\ DependResolved(argLog[j].id))
                    => /\ config.option[argLog[j].id].set
                       /\ config.option[argLog[j].id].source = cfgSourceDefault
                       /\ config.option[argLog[j].id].value = C8Default(argLog[j].id)
                       /\ config.option[argLog[j].id].index[argLog[j].idx + 1].reset

\* argv names, at raw index optionIdx, an option of the group valid for the command
C12Named(groupId, optionIdx) ==
    \E j \in 1..Len(argLog) :
        /\ IsOption(j)
        /\ cfgOptionGroup(argLog[j].id)
        /\ cfgOptionGroupId(argLog[j].id) = groupId
        /\ cfgDefOptionValid(command, argLog[j].id)
        /\ argLog[j].idx = optionIdx

\* the table holds, at raw index optionIdx, a found record of an option of the group
C12Found(groupId, optionIdx) ==
    \E optionId \in OptionIds :
        /\ cfgDefOptionValid(command, optionId)
        /\ cfgOptionGroup(optionId)
        /\ cfgOptionGroupId(optionId) = groupId
        /\ optionIdx < Len(parseOptionList[optionId].indexList)
        /\ parseOptionList[optionId].indexList[optionIdx + 1].found

C13MainMissing ==
    /\ pc # "cfgFileLoad"
    /\ file.read # <<>>
    /\ storageGet(file.storage, file.read[1]).null

\* the record of config is found, not negated, and of the command line
C13OnCommandLine ==
    /\ IndexZeroFound(parseOptionList, cfgOptConfig)
    /\ ~IndexZeroNegate(parseOptionList, cfgOptConfig)
    /\ parseOptionList[cfgOptConfig].indexList[1].source = cfgSourceParam

\* C13: when the main configuration file is missing, the load fails, with
\* FileMissingError, if and only if the record of config is found, not negated
\* and has source Param: a record that environ left, or the default path, does
\* not make the missing file fatal.
C13_MissingConfigFatal ==
    C13MainMissing => ((pc = "throw" /\ err.type = "FileMissingError") <=> C13OnCommandLine)

\* cfgFileLoad() has asked the storage for /etc/pgbackrest.conf after the main file
C14LegacyRead ==
    \E k \in 2..Len(file.read) : file.read[k] = PGBACKREST_CONFIG_ORIG_PATH_FILE

\* argLog[j] is --config with a path that the storage cfgFileLoad() has read
\* has no file at
C14ConfigMissing(j) ==
    /\ FirstOccurrence(j)
    /\ argLog[j].id = cfgOptConfig
    /\ FormOf(argLog[j]) = "plain"
    /\ file.read # <<>>
    /\ storageGet(file.storage, argLog[j].arg).null

C15_NoConfig ==
    (/\ pc # "cfgFileLoad"
     /\ IndexZeroNegate(parseOptionList, cfgOptConfig)
     /\ ~IndexZeroFound(parseOptionList, cfgOptConfigIncludePath)
     /\ ~IndexZeroFound(parseOptionList, cfgOptConfigPath))
        => /\ pc = "return"
           /\ file.read = <<>>
           /\ file.configString = NullText

\* fileLog[i] and fileLog[j] are two keys of one section that name one option
C16Duplicate(i, j) ==
    /\ i < j
    /\ fileLog[i].sectionIdx = fileLog[j].sectionIdx
    /\ fileLog[i].key.kind = "opt" /\ fileLog[j].key.kind = "opt"
    /\ fileLog[i].key.id = fileLog[j].key.id
    /\ cfgDefOptionSection(fileLog[i].key.id) # "CommandLine"

\* C16: a key that Phase 3 accepts is taken, and a second key of the same
\* section that names the same option under another name makes configParse()
\* fail there with OptionInvalidError 'configuration file contains duplicate
\* options' naming the two keys and the section, whether or not argv or
\* environ had set the option; the error is raised for no other keys, so not
\* for an option named once in each of two sections.
C16_DuplicateOptions ==
    /\ \A i \in 1..Len(fileLog) :
            (C2Accepted(i) /\ i = Len(fileLog)) => SegvPhase # "P3"
    /\ \A i, j \in 1..Len(fileLog) :
            C16Duplicate(i, j)
                => /\ j = Len(fileLog)
                   /\ pc = "throw"
                   /\ err.type = "OptionInvalidError"
                   /\ err.msg = "configuration file contains duplicate options"
                   /\ err.values = <<<<fileLog[j].key.name>>, <<fileLog[i].key.name>>,
                                     file.sectionList[fileLog[j].sectionIdx + 1]>>
    /\ (pc = "throw" /\ err.msg = "configuration file contains duplicate options")
            => \E i, j \in 1..Len(fileLog) : C16Duplicate(i, j)

\* argLog[j] sets an option whose dependency no input can have resolved: the
\* option it depends on is named nowhere and its default is not an allowed value
C17Unresolved(j) ==
    /\ FirstOccurrence(j)
    /\ FormOf(argLog[j]) = "plain"
    /\ ContinueToOptions
    /\ cfgDefOptionValid(command, argLog[j].id)
    /\ cfgDefOptionDepend(command, argLog[j].id)
    /\ Unnamed(cfgDefOptionDependOption(command, argLog[j].id))
    /\ ~cfgDefOptionDependValueValid(
            command, argLog[j].id,
            cfgDefOptionDefault(command, cfgDefOptionDependOption(command, argLog[j].id)).s)

\* C17: an option set on the command line whose dependency is unresolved is
\* taken by Phase 1 and makes Phase 5 fail with OptionInvalidError 'not valid
\* without option': configParse() neither returns nor ends otherwise; that
\* error is raised only for an option the command line set; and when
\* configParse() returns, an option whose dependency is unresolved holds no
\* value, no default either.
C17_DependUnresolved ==
    /\ \A j \in 1..Len(argLog) :
            C17Unresolved(j) =>
                /\ ~StoppedAt(j)
                /\ pc # "return"
                /\ SegvPhase # "P5"
                /\ (pc = "throw" /\ config # ConfigInit) =>
                        err = DependError(argLog[j].id,
                                          cfgDefOptionDependOption(command, argLog[j].id),
                                          P5DependNo(argLog[j].id), P5DependValueList(argLog[j].id))
    /\ (pc = "throw" /\ err.msg = "not valid without option") =>
            \E j \in 1..Len(argLog) :
                IsOption(j) /\ argLog[j].id = err.opt /\ FormOf(argLog[j]) = "plain"
    /\ (pc = "return" /\ ContinueToOptions) =>
            \A optionId \in OptionIds :
                (cfgDefOptionValid(command, optionId) /\ ~DependResolved(optionId))
                    => /\ ~config.option[optionId].set
                       /\ config.option[optionId].value = VarNull

\* the whole number a text of digits denotes
RECURSIVE C18Int(_)
C18Int(text) ==
    IF text = <<>> THEN 0
    ELSE 10 * C18Int(SubSeq(text, 1, Len(text) - 1))
            + (CHOOSE d \in 0..9 : SizeDigits[d + 1] = text[Len(text)])

\* the decimal digits of a whole number
RECURSIVE C18Digits(_)
C18Digits(k) == IF k < 10 THEN <<k>> ELSE Append(C18Digits(k \div 10), k % 10)

\* the digits of n times the whole number m: from[i, carry] is the product of
\* the digits of n up to i, and the carry
C18Times(n, m) ==
    LET from[i \in 0..Len(n), carry \in 0..m] ==
            IF i = 0 THEN (IF carry = 0 THEN <<>> ELSE C18Digits(carry))
            ELSE Append(from[i - 1, (n[i] * m + carry) \div 10], (n[i] * m + carry) % 10)
    IN  NumCanon(<<0>> \o from[Len(n), 0])

\* the multiplier of each qualifier: b=1, k=2^10, m=2^20, g=2^30, t=2^40, p=2^50
C18Multiplier(qualifier) ==
    IF qualifier = <<"b">> THEN <<1>>
    ELSE IF qualifier \in {<<"k">>, <<"k", "b">>} THEN <<1, 0, 2, 4>>
    ELSE IF qualifier \in {<<"m">>, <<"m", "b">>} THEN <<1, 0, 4, 8, 5, 7, 6>>
    ELSE IF qualifier \in {<<"g">>, <<"g", "b">>} THEN <<1, 0, 7, 3, 7, 4, 1, 8, 2, 4>>
    ELSE IF qualifier \in {<<"t">>, <<"t", "b">>} THEN <<1, 0, 9, 9, 5, 1, 1, 6, 2, 7, 7, 7, 6>>
    ELSE <<1, 1, 2, 5, 8, 9, 9, 9, 0, 6, 8, 4, 2, 6, 2, 4>>

C18Qualifiers ==
    {<<"b">>, <<"k">>, <<"k", "b">>, <<"m">>, <<"m", "b">>, <<"g">>, <<"g", "b">>, <<"t">>,
     <<"t", "b">>, <<"p">>, <<"p", "b">>}

\* the digits the value given begins with, and what follows them
C18Number == SubSeq(valueStaged, 1, LeadingDigits(valueStaged))

C18Letters == SubSeq(valueStaged, LeadingDigits(valueStaged) + 1, Len(valueStaged))

\* convertToByte() has returned the whole number n, as a double and as a text
C18Yields(n) ==
    /\ pc = "return"
    /\ valueDbl = n
    /\ valueStr = [i \in 1..Len(n) |-> SizeDigits[n[i] + 1]]

C19AliasRead ==
    /\ pc = "P1"
    /\ Len(argLog') = Len(argLog) + 1
    /\ argLog'[Len(argLog')].kind = "opt"
    /\ argLog'[Len(argLog')].deprecate

C19Canonical(tok) == [tok EXCEPT !.deprecate = FALSE]

C19Warned(tok) == \E w \in 1..Len(logWarn') : logWarn'[w].input = tok

C19AsCanonical(tok) ==
    LET r == P1OptionStep(C19Canonical(tok))
    IN  /\ parseOptionList' = r.table
        /\ nullMem' = r.mem
        /\ pc' = r.pc
        /\ err' = r.err

C19_DeprecatedAlias ==
    [][C19AliasRead => (C19Warned(argLog'[Len(argLog')]) /\ C19AsCanonical(argLog'[Len(argLog')]))]_vars

\* ------------------------------------------------------------------------
\* C20: when configParse() has thrown, an error is set and the configuration
\* the caller can read has nothing of the call that failed: no command, the
\* default role, no command parameters, and no option that cfgOptionSet()
\* has set.
\* ------------------------------------------------------------------------
C20Committed == \E optionId \in OptionIds : config.option[optionId].set

C20_NoPartialConfig ==
    pc = "throw" =>
        /\ err # NoError
        /\ command = cfgCmdNone
        /\ commandRole = cfgCmdRoleDefault
        /\ paramList = <<>>
        /\ ~C20Committed

\* ------------------------------------------------------------------------
\* C21: the text cfgFileLoad() returns, from the main file it got and the
\* files of the include directory it listed
\* ------------------------------------------------------------------------
\* the files listed, in ascending order of their names
C21Ordered ==
    [k \in 1..Len(file.list) |->
        CHOOSE e \in {file.list[i] : i \in 1..Len(file.list)} :
            Cardinality({i \in 1..Len(file.list) : file.list[i].name < e.name}) = k - 1]

\* whether the k-th of them is a part: it was read and has bytes
C21IsPart(k) == ~C21Ordered[k].null /\ Len(C21Ordered[k].text) > 0

\* the parts up to the k-th file, an LF before each one that lfBefore admits
C21Parts(lfBefore(_)) ==
    LET upTo[k \in 0..Len(file.list)] ==
            IF k = 0 THEN EMPTY_STR
            ELSE IF ~C21IsPart(k) THEN upTo[k - 1]
            ELSE upTo[k - 1] \o (IF lfBefore(k) THEN LF_STR ELSE EMPTY_STR) \o C21Ordered[k].text
    IN  upTo[Len(file.list)]

C21Every(k) == TRUE

\* a main file was loaded, or a part comes before the k-th file
C21AfterText(k) == ~file.main.null \/ \E j \in 1..(k - 1) : C21IsPart(j)

\* C21: the text cfgFileLoad() returns is the contents of the main file (the
\* empty text when none was loaded) followed, for each include file that has
\* bytes, in ascending order of the names, by one LF and the file's contents,
\* the first part after no main file included.
C21_ConfigText ==
    pc = "return" => file.configString.text = file.main.text \o C21Parts(C21Every)

\* C21 as the code has it: the LF comes before a part only when a text is
\* there already, that is after a main file (of no bytes too) or an earlier
\* part; the text is NULL exactly when there is neither main file nor part.
C21_ConfigTextJoined ==
    pc = "return" =>
        /\ file.configString.text = file.main.text \o C21Parts(C21AfterText)
        /\ file.configString.null <=> (file.main.null /\ \A k \in 1..Len(file.list) : ~C21IsPart(k))

\* no main file, and two include files with bytes
C21_Witness ==
    /\ pc = "return"
    /\ file.main.null
    /\ Cardinality({k \in 1..Len(file.list) : C21IsPart(k)}) = 2
    /\ file.configString.text \in {<<"i1", "\n", "i2">>, <<"g1", "\n", "g4">>}

\* ------------------------------------------------------------------------
\* C22: the wording of the dependency error of Phase 5
\* ------------------------------------------------------------------------
\* Phase 5 has refused option err.opt for the option it depends on
C22Error == pc = "throw" /\ err.type = "OptionInvalidError" /\ err.msg = "not valid without option"

C22Target == OptionDef[err.opt].depend.opt

C22Allowed == OptionDef[err.opt].depend.values

\* 'v1', 'v2', ... of the first k allowed values
C22Listed ==
    LET upTo[k \in 0..Len(C22Allowed)] ==
            IF k = 0 THEN <<>>
            ELSE IF k = 1 THEN <<"'">> \o C22Allowed[1] \o <<"'">>
            ELSE upTo[k - 1] \o <<",", " ", "'">> \o C22Allowed[k] \o <<"'">>
    IN  upTo[Len(C22Allowed)]

C22Suffix ==
    IF Len(C22Allowed) = 0 THEN <<>>
    ELSE IF Len(C22Allowed) = 1 THEN <<" ", "=", " ">> \o C22Listed
    ELSE <<" ", "i", "n", " ", "(">> \o C22Listed \o <<")">>

C23LookedUp ==
    {<<argLog[i].id, argLog[i].idx>> :
        i \in {j \in 1..Len(argLog) : argLog[j].kind = "opt" /\ ~cfgDefOptionSecure(argLog[j].id)}}
    \cup
    {<<envLog[i].id, envLog[i].idx>> :
        i \in {j \in 1..Len(envLog) : /\ envLog[j].kind = "opt"
                                      /\ cfgDefOptionValid(command, envLog[j].id)
                                      /\ envLog[j].value # EMPTY_STR}}

\* C23: the lookup of the staging record of an (option id, index) in Phase 1,
\* 2 and 3 always yields a record: the index list of the option has grown to
\* hold the index, the pointer is not NULL, and no phase ends in a fault.
C23_LookupYieldsRecord ==
    /\ pc # "segv"
    /\ \A place \in C23LookedUp :
            /\ place[2] < parseOptionList[place[1]].indexListTotal
            /\ place[2] < Len(parseOptionList[place[1]].indexList)
            /\ ~parseOptionIdxValue(place[1], place[2]).null

\* ------------------------------------------------------------------------
\* C24: the Path values Phase 5 commits
\* ------------------------------------------------------------------------
C24PathIds == {optionId \in OptionIds : cfgDefOptionType(optionId) = "Path"}

\* the raw indexes Phase 5 visits for the option
C24Indexes(optionId) ==
    IF cfgOptionGroup(optionId)
        THEN {config.optionGroup[cfgOptionGroupId(optionId)].index[k] :
                k \in 1..config.optionGroup[cfgOptionGroupId(optionId)].indexTotal}
        ELSE {0}

\* the values staged for the option in records that are found and set
C24Staged(optionId) ==
    {parseOptionList[optionId].indexList[i + 1].valueList[1] :
        i \in {j \in C24Indexes(optionId) :
                    /\ parseOptionList[optionId].indexList[j + 1].found
                    /\ ~parseOptionList[optionId].indexList[j + 1].negate
                    /\ ~parseOptionList[optionId].indexList[j + 1].reset}}

C24Accepted(v) ==
    /\ Len(v) >= 1
    /\ v[1] = "/"
    /\ \A i \in 1..(Len(v) - 1) : ~(v[i] = "/" /\ v[i + 1] = "/")

C24Stripped(v) == IF Len(v) > 1 /\ v[Len(v)] = "/" THEN SubSeq(v, 1, Len(v) - 1) ELSE v

C24WellFormed(v) == C24Accepted(v) /\ (v[Len(v)] = "/" => v = <<"/">>)

C24Step(optionId) ==
    /\ pc' = "return" => \A v \in C24Staged(optionId) : C24Accepted(v)
    /\ (\E v \in C24Staged(optionId) : ~C24Accepted(v)) => pc' = "throw"
    /\ (pc' = "throw" /\ err'.type = "OptionInvalidValueError" /\ err'.opt = optionId)
            => \E v \in C24Staged(optionId) : ~C24Accepted(v)
    /\ (config'.option[optionId].set /\ config'.option[optionId].source # cfgSourceDefault
            /\ config'.option[optionId].value.t = "str")
            => /\ C24WellFormed(config'.option[optionId].value.s)
               /\ \E v \in C24Staged(optionId) :
                        C24Accepted(v) /\ config'.option[optionId].value.s = C24Stripped(v)

\* C24: a Path value Phase 5 commits from a staged record begins with /, has
\* no // and does not end with / unless it is /: it is the staged value less
\* one trailing / when that value is longer than one character. A staged
\* value that is empty, does not begin with / or contains // is never
\* committed: the parse ends with an error, which is OptionInvalidValueError
\* when it names the option.
C24_PathCommitted ==
    [][pc = "P5" => \A optionId \in C24PathIds : config.option[optionId].valid => C24Step(optionId)]_vars

\* pg1-path = /b/ of a configuration file is committed as /b
C24_Witness ==
    /\ pc = "return"
    /\ command = cfgCmdBackup
    /\ config.optionGroup["pg"].index = <<0>>
    /\ config.option["pg-path"].source = cfgSourceConfig
    /\ config.option["pg-path"].value = VarStr(<<"/", "b">>)

C26TwoIndexes(i, j) ==
    /\ i < j
    /\ fileLog[i].sectionIdx = fileLog[j].sectionIdx
    /\ fileLog[i].key.kind = "opt"
    /\ fileLog[j].key.kind = "opt"
    /\ fileLog[i].key.id = fileLog[j].key.id
    /\ fileLog[i].key.idx # fileLog[j].key.idx

\* C26: two keys of one section that name two indexes of one group option
\* (pg1-path and pg2-path) are not reported as duplicate options.
C26_IndexesNotDuplicates ==
    \A i, j \in 1..Len(fileLog) :
        C26TwoIndexes(i, j) =>
            ~(/\ pc = "throw"
              /\ j = Len(fileLog)
              /\ err.msg = "configuration file contains duplicate options"
              /\ err.values[1] = <<fileLog[j].key.name>>
              /\ err.values[2] = <<fileLog[i].key.name>>)

\* ------------------------------------------------------------------------
\* C27: the values of the indexes of a group option
\* ------------------------------------------------------------------------
\* the staging record Phase 5 resolves for external index i (from 0) of a group option
C27Record(optionId, i) ==
    parseOptionList[optionId].indexList[config.optionGroup[cfgOptionGroupId(optionId)].index[i + 1] + 1]

\* what the Config holds for external index i of the option: cfgOptionSet() is
\* given the option and no index, so what it stores is the same for every index
C27Committed(optionId, i) == cfgOption(config.option, optionId)

\* C27: when configParse() returns, a group option found at two or more raw
\* indexes holds at every external index i the value of the staging record
\* at raw index index[i] (a path as Phase 5 has left it there, less its
\* trailing /): no index holds the value resolved for another one.
C27_IndexValues ==
    pc = "return" =>
        \A optionId \in {o \in OptionIds : cfgOptionGroup(o) /\ config.option[o].valid} :
            \A i \in 0..(config.optionGroup[cfgOptionGroupId(optionId)].indexTotal - 1) :
                (/\ config.optionGroup[cfgOptionGroupId(optionId)].indexTotal >= 2
                 /\ C27Record(optionId, i).found
                 /\ ~C27Record(optionId, i).negate
                 /\ ~C27Record(optionId, i).reset)
                    => C27Committed(optionId, i) = VarStr(C27Record(optionId, i).valueList[1])

\* ------------------------------------------------------------------------
\* C28: stanza-only options and the name of the stanza
\* ------------------------------------------------------------------------
\* fileLog[i] is a key of a stanza section (<stanza>:<command> or <stanza>)
\* that names a stanza-only option valid for the command
C28InStanzaSection(i) ==
    /\ Len(file.sectionList) = 4
    /\ fileLog[i].sectionIdx < 2
    /\ fileLog[i].key.kind = "opt"
    /\ cfgDefOptionSection(fileLog[i].key.id) = "Stanza"
    /\ cfgDefOptionValid(command, fileLog[i].key.id)

C28StanzaOnlyWarnings ==
    {k \in 1..Len(logWarn) :
        logWarn[k].text = "configuration file contains stanza-only option in global section"}

\* the keys read in the sections global:<command> and global
C28InGlobalSection ==
    {i \in 1..Len(fileLog) : fileLog[i].sectionIdx >= Len(file.sectionList) - 2}

\* C28: a stanza-only option that Phase 3 has read in the section <stanza> or
\* <stanza>:<command> and has not refused has its staging record found,
\* whatever the name of the stanza, a name that begins with global included;
\* the warning of a stanza-only option is written for keys of the sections
\* global and global:<command> only.
C28_StanzaSectionStored ==
    /\ \A i \in 1..Len(fileLog) :
            (C28InStanzaSection(i) /\ ~(pc = "throw" /\ i = Len(fileLog)))
                => parseOptionList[fileLog[i].key.id].indexList[fileLog[i].key.idx + 1].found
    /\ Cardinality(C28StanzaOnlyWarnings) <= Cardinality(C28InGlobalSection)

\* ------------------------------------------------------------------------
\* C29: the commands whose options are not validated
\* ------------------------------------------------------------------------
\* C29: while the command is version, help without a command to give help
\* for, or none (an empty argv ends as help), Phases 2 to 5 do not run: no
\* environment variable is examined, no configuration file or include
\* directory is read, no warning of Phase 2 or 3 is written and no option is
\* made valid, committed or validated; configParse() ends in Phase 1 or
\* returns after it, as help when the command is not version.
C29_NoOptionPhases ==
    command \in {cfgCmdNone, cfgCmdVersion, cfgCmdHelp} =>
        /\ pc \in {"P1", "return", "throw", "segv"}
        /\ SegvPhase \in {"", "P1"}
        /\ envLog = <<>>
        /\ file = FileInit
        /\ fileLog = <<>>
        /\ logWarn = <<>>
        /\ config = ConfigInit
        /\ optionOrderIdx = 0
        /\ (pc = "return" /\ command # cfgCmdVersion) => commandHelp

\* an empty argv: configParse() has returned as help, no command set
C29_Witness ==
    /\ pc = "return"
    /\ argLog = <<>>
    /\ command = cfgCmdNone
    /\ commandHelp

\* ------------------------------------------------------------------------
\* C30: the qualifier convertToByte() selects
\* ------------------------------------------------------------------------
\* the value given, in lower case, matches the size pattern
C30Matches == regExpMatchOne(strLower(valueStaged))

\* C30: convertToByte() never ends with the AssertError of
\* sizeQualifierToMultiplier(), the one error it throws is FormatError; a
\* value the size pattern matches that ends with b has at least two
\* characters, so that the character before the last one exists when it is
\* read, and the character at chrPos, when there is one, is one of b, k, m,
\* g, t, p.
C30_QualifierValid ==
    /\ err.type # "AssertError"
    /\ pc = "throw" => err.type = "FormatError"
    /\ C30Matches =>
            /\ strLower(valueStaged)[Len(valueStaged)] = "b" => Len(valueStaged) >= 2
            /\ SizeChrPos(strLower(valueStaged)) # -1 =>
                    /\ SizeChrPos(strLower(valueStaged)) \in 1..(Len(valueStaged) - 1)
                    /\ strLower(valueStaged)[SizeChrPos(strLower(valueStaged)) + 1]
                            \in {"b", "k", "m", "g", "t", "p"}

\* convertToByte() has returned from 9bb: the qualifier is the b before the last b
C30_Witness ==
    /\ pc = "return"
    /\ valueStaged = <<"9", "b", "b">>
    /\ SizeChrPos(valueStaged) = 1
    /\ valueDbl = <<9>>


====
